---- MODULE Spec2Model ----
(***************************************************************************)
(* clickup-tui: the task view engine of src/app.rs and src/models.rs.      *)
(*                                                                         *)
(* Strings are TLA+ strings (sequences of characters).  Option<T> is the   *)
(* empty tuple (None) or a one-element tuple (Some(x)).  Timestamps are    *)
(* integers.  Every call of Utc::now() reads the system clock anew: the    *)
(* variable now lists, in order, the values the calls of the operation at  *)
(* hand get; the last value listed is also the value of every later call,  *)
(* and the clock never goes back.                                          *)
(***************************************************************************)
EXTENDS Integers, Sequences, FiniteSets, TLC

VARIABLES
    tasks,                 \* App.tasks: Vec<Task>
    overlays,              \* App.local_state.overlays: HashMap<String, TaskOverlay>
    current_group,         \* App.current_group
    selected_index,        \* App.selected_index
    search_query,          \* App.search_query
    input_mode,            \* App.input_mode
    status_message,        \* App.status_message
    search_selected_index, \* App.search_selected_index
    snooze_input,          \* App.snooze_input
    user_id,               \* App.user_id: Option<u64>
    now,                   \* the system clock: now[k] is what the k-th Utc::now() returns
    \* a call of current_tasks in progress: its position and its locals
    pc,                    \* "idle", "for_my", "walk", "add", "for_included", "depth", "sort", "done";
                           \* "panicked" once the process has panicked, "aborted" once
                           \* an allocation has failed; "starting" before run_app,
                           \* "refreshing" while key 'r' awaits the fetch, "quit" after 'q'
    ct_my_idx,             \* position of `for dt in &my_tasks`
    ct_ancestors,          \* ancestors
    ct_current_parent_id,  \* current_parent_id
    ct_included,           \* included
    ct_added_ids,          \* added_ids
    ct_inc_idx,            \* position of `for dt in &included`
    ct_depth,              \* depth
    ct_pid,                \* pid of the depth loop
    ct_depth_map,          \* depth_map
    ct_steps,              \* iterations the running while loop has made
    returned               \* the value the last query returned to its caller

appVars == <<tasks, overlays, current_group, selected_index, search_query,
             input_mode, status_message, search_selected_index, snooze_input, user_id>>

callVars == <<pc, ct_my_idx, ct_ancestors, ct_current_parent_id, ct_included,
              ct_added_ids, ct_inc_idx, ct_depth, ct_pid, ct_depth_map, ct_steps, returned>>

callLocals == <<ct_my_idx, ct_ancestors, ct_current_parent_id, ct_included,
                ct_added_ids, ct_inc_idx, ct_depth, ct_pid, ct_depth_map, ct_steps, returned>>

vars == <<tasks, overlays, current_group, selected_index, search_query, input_mode,
          status_message, search_selected_index, snooze_input, user_id, now, pc, ct_my_idx,
          ct_ancestors, ct_current_parent_id, ct_included, ct_added_ids, ct_inc_idx,
          ct_depth, ct_pid, ct_depth_map, ct_steps, returned>>

(***************************************************************************)
(* Option, strings                                                         *)
(***************************************************************************)
None == <<>>
Some(x) == <<x>>
IsSome(o) == o /= <<>>
Unwrap(o) == o[1]

UpperCase == "ABCDEFGHIJKLMNOPQRSTUVWXYZ"
LowerCase == "abcdefghijklmnopqrstuvwxyz"

CharAt(s, i) == SubSeq(s, i, i)

\* the lower-case letter of each upper-case letter
LowerOf ==
    [c \in {CharAt(UpperCase, i) : i \in 1..Len(UpperCase)} |->
        CharAt(LowerCase, CHOOSE i \in 1..Len(UpperCase) : CharAt(UpperCase, i) = c)]

\* char::to_lowercase on the ASCII range
char_to_lowercase(c) == IF c \in DOMAIN LowerOf THEN LowerOf[c] ELSE c

\* str::to_lowercase
RECURSIVE to_lowercase(_)
to_lowercase(s) ==
    IF Len(s) = 0 THEN ""
    ELSE char_to_lowercase(CharAt(s, 1)) \o to_lowercase(SubSeq(s, 2, Len(s)))

\* str::contains(&str): needle occurs in hay as a contiguous substring
contains(hay, needle) ==
    \E i \in 0..(Len(hay) - Len(needle)) : SubSeq(hay, i + 1, i + Len(needle)) = needle

(***************************************************************************)
(* models.rs: TaskGroup, status_to_group, Task, TaskOverlay, LocalState,   *)
(* DisplayTask                                                             *)
(***************************************************************************)
MyAction == "MyAction"
Waiting == "Waiting"
Backlog == "Backlog"
Done == "Done"
Snoozed == "Snoozed"
Person == "Person"

\* TaskGroup::all()
all == <<MyAction, Waiting, Backlog, Done, Snoozed, Person>>

\* TaskGroup::index (0-based)
index(group) == (CHOOSE i \in 1..Len(all) : all[i] = group) - 1

\* TaskGroup::from_index
from_index(idx) == IF idx \in 0..(Len(all) - 1) THEN Some(all[idx + 1]) ELSE None

\* the custom_item_id that marks a Person task
PERSON_ITEM_ID == 1020

status_to_group_lower(status_lower) ==
    CASE status_lower \in {"in progress", "to do", "to-do", "todo"} -> MyAction
      [] status_lower \in {"in review", "review", "to review"} -> MyAction
      [] status_lower \in {"blocked"} -> Waiting
      [] status_lower \in {"in testing", "testing"} -> Waiting
      [] status_lower \in {"to validate", "validation", "pending review"} -> Waiting
      [] status_lower \in {"backlog", "open", "new"} -> Backlog
      [] status_lower \in {"done", "complete", "completed", "closed"} -> Done
      [] status_lower \in {"released", "deployed", "shipped"} -> Done
      [] status_lower \in {"cancelled", "canceled", "won't do", "wontdo"} -> Done
      [] status_lower \in {"for reference"} -> Done
      [] OTHER -> Backlog

\* variant: the status is looked up as written, without lower-casing
status_to_group_as_written(status) == status_to_group_lower(status)

status_to_group(status) == status_to_group_lower(to_lowercase(status))

\* Task::group
group(task) == status_to_group(task.status)

\* Task::is_assigned_to
is_assigned_to(task, uid) == uid \in task.assignee_ids

\* TaskOverlay::default()
DefaultOverlay == [pinned |-> FALSE, snoozed_until |-> None, sort_order |-> None]

\* LocalState::default().overlays
EmptyOverlays == [id \in {} |-> DefaultOverlay]

\* LocalState::get_overlay
get_overlay(ov, task_id) == IF task_id \in DOMAIN ov THEN ov[task_id] ELSE DefaultOverlay

\* HashMap::entry(task_id).or_default()
entry_or_default(ov, task_id) ==
    IF task_id \in DOMAIN ov THEN ov ELSE (task_id :> DefaultOverlay) @@ ov

\* variant: pinning a task also ends its snooze
toggle_pin_unsnoozing(ov, task_id) ==
    LET e == entry_or_default(ov, task_id)
    IN  [e EXCEPT ![task_id].pinned = ~e[task_id].pinned, ![task_id].snoozed_until = None]

\* LocalState::toggle_pin
toggle_pin(ov, task_id) ==
    LET e == entry_or_default(ov, task_id)
    IN  [e EXCEPT ![task_id].pinned = ~e[task_id].pinned]

\* LocalState::snooze
snooze(ov, task_id, until) ==
    LET e == entry_or_default(ov, task_id)
    IN  [e EXCEPT ![task_id].snoozed_until = Some(until)]

\* variant: the stored snooze is left in place
unsnooze_keeping(ov, task_id) == ov

\* LocalState::unsnooze
unsnooze(ov, task_id) ==
    IF task_id \in DOMAIN ov THEN [ov EXCEPT ![task_id].snoozed_until = None] ELSE ov

\* LocalState::is_pinned
is_pinned(ov, task_id) == IF task_id \in DOMAIN ov THEN ov[task_id].pinned ELSE FALSE

\* DisplayTask::new
DisplayTask(task, overlay) == [task |-> task, overlay |-> overlay]

\* variant: a snooze is still active at the instant it ends
snooze_active_inclusive(until, clock) == until >= clock

\* the closure u > Utc::now() of effective_group
snooze_active(until, clock) == until > clock

\* variant: a stored snoozed_until snoozes the task whatever the time
effective_group_sticky(dt, clock) ==
    IF IsSome(dt.overlay.snoozed_until) THEN Snoozed ELSE group(dt.task)

\* DisplayTask::effective_group, with clock the value its call of Utc::now()
\* returns (it makes the call when the overlay has a snoozed_until)
effective_group(dt, clock) ==
    IF IsSome(dt.overlay.snoozed_until) /\ snooze_active(Unwrap(dt.overlay.snoozed_until), clock)
    THEN Snoozed
    ELSE group(dt.task)

(***************************************************************************)
(* app.rs: group_counts                                                    *)
(***************************************************************************)
\* the DisplayTask built for a task of self.tasks
display(ov, t) == DisplayTask(t, get_overlay(ov, t.id))

\* variant: the five status categories do not exclude Person tasks
counts_filter_unguarded(grp, dt, clock) ==
    IF grp = Person
    THEN dt.task.custom_item_id = Some(PERSON_ITEM_ID)
    ELSE effective_group(dt, clock) = grp

\* variant: the counter applies the user filter of current_tasks
counts_filter_assigned(grp, dt, clock) ==
    /\ IsSome(user_id) => Unwrap(user_id) \in dt.task.assignee_ids
    /\ IF grp = Person
       THEN dt.task.custom_item_id = Some(PERSON_ITEM_ID)
       ELSE dt.task.custom_item_id /= Some(PERSON_ITEM_ID) /\ effective_group(dt, clock) = grp

\* the filter closure of group_counts
counts_filter(grp, dt, clock) ==
    IF grp = Person
    THEN dt.task.custom_item_id = Some(PERSON_ITEM_ID)
    ELSE dt.task.custom_item_id /= Some(PERSON_ITEM_ID) /\ effective_group(dt, clock) = grp

\* the value the k-th call of Utc::now() of an operation returns, readings
\* being the values the clock returns one call after the other; the clock
\* stands still after the last value listed
read_at(readings, k) == readings[IF k <= Len(readings) THEN k ELSE Len(readings)]

\* a status filter calls effective_group on a task that is not a Person task,
\* and effective_group calls Utc::now() when the task has a snoozed_until
reads_clock(dt) ==
    dt.task.custom_item_id /= Some(PERSON_ITEM_ID) /\ IsSome(dt.overlay.snoozed_until)

\* the calls of Utc::now() one pass of a status filter makes on the first n
\* tasks of ts
pass_reads(ts, ov, n) == Cardinality({j \in 1..n : reads_clock(display(ov, ts[j]))})

\* the call of Utc::now() that the pass of group_counts for all[i] makes, or
\* would make, on task ts[j]: the passes of the five status categories go
\* over the whole list one after the other
count_read(ts, ov, i, j) ==
    Cardinality({g \in 1..(i - 1) : all[g] /= Person}) * pass_reads(ts, ov, Len(ts))
        + pass_reads(ts, ov, j - 1) + 1

\* App::group_counts on explicit inputs: Vec<(TaskGroup, usize)>; readings
\* are the values its calls of Utc::now() return
group_counts_of(ts, ov, readings) ==
    [i \in 1..Len(all) |->
        <<all[i],
          Cardinality({j \in DOMAIN ts :
              counts_filter(all[i], display(ov, ts[j]),
                            read_at(readings, count_read(ts, ov, i, j)))})>>]

\* App::group_counts
group_counts == group_counts_of(tasks, overlays, now)

\* the calls of Utc::now() a call of group_counts makes in the current state:
\* each of the passes of the status categories reads the clock once per task
\* that is not a Person task and has a snoozed_until
group_counts_reads ==
    Cardinality({g \in DOMAIN all : all[g] /= Person}) * pass_reads(tasks, overlays, Len(tasks))

(***************************************************************************)
(* app.rs: current_tasks                                                   *)
(***************************************************************************)
\* the HashMap all_tasks: a later task of self.tasks replaces an earlier one
\* with the same id
all_tasks_of(ts, ov) ==
    [id \in {ts[i].id : i \in DOMAIN ts} |->
        display(ov, ts[CHOOSE i \in DOMAIN ts :
                          ts[i].id = id /\ \A j \in DOMAIN ts : j > i => ts[j].id /= id])]

\* variant: the five status categories do not exclude Person tasks
in_group_unguarded(grp, dt, clock) ==
    IF grp = Person
    THEN dt.task.custom_item_id = Some(PERSON_ITEM_ID)
    ELSE effective_group(dt, clock) = grp

\* in_group of the first filter closure
in_group(grp, dt, clock) ==
    IF grp = Person
    THEN dt.task.custom_item_id = Some(PERSON_ITEM_ID)
    ELSE dt.task.custom_item_id /= Some(PERSON_ITEM_ID) /\ effective_group(dt, clock) = grp

\* is_assigned of the first filter closure
is_assigned(dt, uid) == IF IsSome(uid) THEN is_assigned_to(dt.task, Unwrap(uid)) ELSE TRUE

\* variant: the text filter also looks into the tags
text_filter_with_tags(dt, query_text) ==
    IF Len(query_text) = 0 THEN TRUE
    ELSE LET query == to_lowercase(query_text)
         IN  \/ contains(to_lowercase(dt.task.name), query)
             \/ contains(to_lowercase(dt.task.list_name), query)
             \/ contains(to_lowercase(dt.task.status), query)
             \/ IF IsSome(dt.task.description)
                THEN contains(to_lowercase(Unwrap(dt.task.description)), query)
                ELSE FALSE
             \/ \E k \in DOMAIN dt.task.tags : contains(to_lowercase(dt.task.tags[k]), query)

\* the second filter closure: the text filter
text_filter(dt, query_text) ==
    IF Len(query_text) = 0 THEN TRUE
    ELSE LET query == to_lowercase(query_text)
         IN  \/ contains(to_lowercase(dt.task.name), query)
             \/ contains(to_lowercase(dt.task.list_name), query)
             \/ contains(to_lowercase(dt.task.status), query)
             \/ IF IsSome(dt.task.description)
                THEN contains(to_lowercase(Unwrap(dt.task.description)), query)
                ELSE FALSE

\* my_tasks: the tasks of self.tasks, in their order, that pass both filters;
\* the first filter classifies the tasks one after the other, each with a
\* call of Utc::now() of its own
my_tasks_of(ts, ov, readings, grp, uid, query_text) ==
    LET dts == [i \in DOMAIN ts |-> display(ov, ts[i])]
        passes(i) ==
            /\ in_group(grp, dts[i], read_at(readings, pass_reads(ts, ov, i - 1) + 1))
            /\ is_assigned(dts[i], uid)
            /\ text_filter(dts[i], query_text)
        kept == SelectSeq([i \in DOMAIN ts |-> i], passes)
    IN  [k \in DOMAIN kept |-> dts[kept[k]]]

\* parent_assigned of the ancestor walk
parent_assigned(parent, uid) ==
    IF IsSome(uid) THEN is_assigned_to(parent.task, Unwrap(uid)) ELSE TRUE

\* variant: the parent's assignment is tested before it is pushed, so the
\* first unassigned ancestor is left out
RECURSIVE ancestor_walk_test_first(_, _, _, _)
ancestor_walk_test_first(at, uid, current_parent_id, ancestors) ==
    IF ~IsSome(current_parent_id) THEN ancestors
    ELSE LET pid == Unwrap(current_parent_id)
         IN  IF pid \in DOMAIN at
             THEN LET parent == at[pid]
                  IN  IF ~parent_assigned(parent, uid) THEN ancestors
                      ELSE ancestor_walk_test_first(at, uid, parent.task.parent_id,
                                                    Append(ancestors, parent))
             ELSE ancestors

\* variant: the walk goes on above an ancestor that fails the assignment filter
RECURSIVE ancestor_walk_no_stop(_, _, _, _)
ancestor_walk_no_stop(at, uid, current_parent_id, ancestors) ==
    IF ~IsSome(current_parent_id) THEN ancestors
    ELSE LET pid == Unwrap(current_parent_id)
         IN  IF pid \in DOMAIN at
             THEN ancestor_walk_no_stop(at, uid, at[pid].task.parent_id,
                                        Append(ancestors, at[pid]))
             ELSE ancestors

\* the loop `while let Some(pid) = current_parent_id`: the ancestors pushed,
\* nearest first
RECURSIVE ancestor_walk(_, _, _, _)
ancestor_walk(at, uid, current_parent_id, ancestors) ==
    IF ~IsSome(current_parent_id) THEN ancestors
    ELSE LET pid == Unwrap(current_parent_id)
         IN  IF pid \in DOMAIN at
             THEN LET parent == at[pid]
                      pushed == Append(ancestors, parent)
                  IN  IF ~parent_assigned(parent, uid) THEN pushed
                      ELSE ancestor_walk(at, uid, parent.task.parent_id, pushed)
             ELSE ancestors

\* Vec::into_iter().rev()
rev(s) == [i \in 1..Len(s) |-> s[Len(s) + 1 - i]]

\* variant: the task is pushed without looking it up in added_ids
push_unchecked(st, dt) ==
    [included |-> Append(st.included, dt), added_ids |-> st.added_ids \cup {dt.task.id}]

\* `if !added_ids.contains(id) { included.push(..); added_ids.insert(id) }`
push_new(st, dt) ==
    IF dt.task.id \in st.added_ids THEN st
    ELSE [included |-> Append(st.included, dt),
          added_ids |-> st.added_ids \cup {dt.task.id}]

RECURSIVE push_all_new(_, _)
push_all_new(st, dts) ==
    IF dts = <<>> THEN st ELSE push_all_new(push_new(st, Head(dts)), Tail(dts))

\* the loop `for dt in &my_tasks`: included and added_ids
RECURSIVE build_included(_, _, _, _)
build_included(at, uid, my, st) ==
    IF my = <<>> THEN st
    ELSE LET dt == Head(my)
             ancestors == ancestor_walk(at, uid, dt.task.parent_id, <<>>)
         IN  build_included(at, uid, Tail(my),
                            push_new(push_all_new(st, rev(ancestors)), dt))

\* variant: the lookup does not move up, it yields the task it was given
parent_of_self(at, p) == IF p \in DOMAIN at THEN Some(p) ELSE None

\* all_tasks.get(&p).and_then(|t| t.task.parent_id.clone())
parent_of(at, p) == IF p \in DOMAIN at THEN at[p].task.parent_id ELSE None

\* the number of times the loop of get_root runs its body, the run that
\* ends in `break` included
RECURSIVE root_walk_steps(_, _, _, _)
root_walk_steps(at, added_ids, current, n) ==
    IF ~IsSome(current) THEN n
    ELSE IF Unwrap(current) \in added_ids
    THEN root_walk_steps(at, added_ids, parent_of(at, Unwrap(current)), n + 1)
    ELSE n + 1

\* variant: the topmost visible ancestor is not counted
RECURSIVE depth_walk_below_root(_, _, _, _)
depth_walk_below_root(at, added_ids, pid, depth) ==
    IF IsSome(pid) /\ Unwrap(pid) \in added_ids
    THEN LET above == parent_of(at, Unwrap(pid))
         IN  IF IsSome(above) /\ Unwrap(above) \in added_ids
             THEN depth_walk_below_root(at, added_ids, above, depth + 1)
             ELSE depth
    ELSE depth

\* the depth loop of depth_map
RECURSIVE depth_walk(_, _, _, _)
depth_walk(at, added_ids, pid, depth) ==
    IF IsSome(pid) /\ Unwrap(pid) \in added_ids
    THEN depth_walk(at, added_ids, parent_of(at, Unwrap(pid)), depth + 1)
    ELSE depth

\* variant: every task gets depth 0
depth_map_flat(at, st) ==
    [id \in {st.included[i].task.id : i \in DOMAIN st.included} |-> 0]

\* depth_map
depth_map_of(at, st) ==
    [id \in {st.included[i].task.id : i \in DOMAIN st.included} |->
        LET dt == st.included[CHOOSE i \in DOMAIN st.included : st.included[i].task.id = id]
        IN  depth_walk(at, st.added_ids, dt.task.parent_id, 0)]

\* the closure get_root
RECURSIVE root_walk(_, _, _, _)
root_walk(at, added_ids, root, current) ==
    IF IsSome(current) /\ Unwrap(current) \in added_ids
    THEN root_walk(at, added_ids, Unwrap(current), parent_of(at, Unwrap(current)))
    ELSE root

get_root(at, added_ids, id, parent_id) == root_walk(at, added_ids, id, parent_id)

\* std::cmp::Ordering
Less == -1
Equal == 0
Greater == 1

\* the characters ids are made of (space, hyphen, digits, letters, underscore),
\* in the order of their code points
CodeOrder == " -0123456789ABCDEFGHIJKLMNOPQRSTUVWXYZ_abcdefghijklmnopqrstuvwxyz"

\* the rank of a character's code point
char_code(c) == CHOOSE i \in 1..Len(CodeOrder) : CharAt(CodeOrder, i) = c

\* Ord::cmp on integers
cmp_int(x, y) == IF x < y THEN Less ELSE IF x > y THEN Greater ELSE Equal

\* Ord::cmp on String: lexicographic
RECURSIVE cmp_str(_, _)
cmp_str(x, y) ==
    IF Len(x) = 0 /\ Len(y) = 0 THEN Equal
    ELSE IF Len(x) = 0 THEN Less
    ELSE IF Len(y) = 0 THEN Greater
    ELSE LET c == cmp_int(char_code(CharAt(x, 1)), char_code(CharAt(y, 1)))
         IN  IF c /= Equal THEN c
             ELSE cmp_str(SubSeq(x, 2, Len(x)), SubSeq(y, 2, Len(y)))

\* all_tasks.get(&root).and_then(|t| t.task.priority)
root_priority(at, root) == IF root \in DOMAIN at THEN at[root].task.priority ELSE None

\* variant: an absent priority sorts first
priority_cmp_none_first(pa, pb) ==
    IF IsSome(pa) /\ IsSome(pb) THEN cmp_int(Unwrap(pa), Unwrap(pb))
    ELSE IF IsSome(pa) THEN Greater
    ELSE IF IsSome(pb) THEN Less
    ELSE Equal

\* priority_cmp
priority_cmp(pa, pb) ==
    IF IsSome(pa) /\ IsSome(pb) THEN cmp_int(Unwrap(pa), Unwrap(pb))
    ELSE IF IsSome(pa) THEN Less
    ELSE IF IsSome(pb) THEN Greater
    ELSE Equal

\* variant: tasks of different roots are not told apart by their roots
sort_cmp_ungrouped(at, st, depth_map, a, b) ==
    LET root_a == get_root(at, st.added_ids, a.task.id, a.task.parent_id)
        root_b == get_root(at, st.added_ids, b.task.id, b.task.parent_id)
        by_priority == priority_cmp(root_priority(at, root_a), root_priority(at, root_b))
        depth_a == IF a.task.id \in DOMAIN depth_map THEN depth_map[a.task.id] ELSE 0
        depth_b == IF b.task.id \in DOMAIN depth_map THEN depth_map[b.task.id] ELSE 0
    IN  IF by_priority /= Equal THEN by_priority
        ELSE IF cmp_int(depth_a, depth_b) /= Equal THEN cmp_int(depth_a, depth_b)
        ELSE cmp_str(a.task.id, b.task.id)

\* variant: no final comparison of the ids
sort_cmp_no_tiebreak(at, st, depth_map, a, b) ==
    LET root_a == get_root(at, st.added_ids, a.task.id, a.task.parent_id)
        root_b == get_root(at, st.added_ids, b.task.id, b.task.parent_id)
        by_priority == priority_cmp(root_priority(at, root_a), root_priority(at, root_b))
        depth_a == IF a.task.id \in DOMAIN depth_map THEN depth_map[a.task.id] ELSE 0
        depth_b == IF b.task.id \in DOMAIN depth_map THEN depth_map[b.task.id] ELSE 0
    IN  IF by_priority /= Equal THEN by_priority
        ELSE IF root_a /= root_b THEN cmp_str(root_a, root_b)
        ELSE cmp_int(depth_a, depth_b)

\* the comparator closure of included.sort_by
sort_cmp(at, st, depth_map, a, b) ==
    LET root_a == get_root(at, st.added_ids, a.task.id, a.task.parent_id)
        root_b == get_root(at, st.added_ids, b.task.id, b.task.parent_id)
        by_priority == priority_cmp(root_priority(at, root_a), root_priority(at, root_b))
        depth_a == IF a.task.id \in DOMAIN depth_map THEN depth_map[a.task.id] ELSE 0
        depth_b == IF b.task.id \in DOMAIN depth_map THEN depth_map[b.task.id] ELSE 0
    IN  IF by_priority /= Equal THEN by_priority
        ELSE IF root_a /= root_b THEN cmp_str(root_a, root_b)
        ELSE IF cmp_int(depth_a, depth_b) /= Equal THEN cmp_int(depth_a, depth_b)
        ELSE cmp_str(a.task.id, b.task.id)

\* slice::sort_by, a stable sort: x goes after the last element not greater
\* than it
RECURSIVE insert_sorted(_, _, _, _, _)
insert_sorted(at, st, depth_map, sorted, x) ==
    IF sorted = <<>> THEN <<x>>
    ELSE LET last == sorted[Len(sorted)]
         IN  IF sort_cmp(at, st, depth_map, last, x) = Greater
             THEN Append(insert_sorted(at, st, depth_map, SubSeq(sorted, 1, Len(sorted) - 1), x),
                         last)
             ELSE Append(sorted, x)

RECURSIVE sort_by(_, _, _, _, _)
sort_by(at, st, depth_map, sorted, rest) ==
    IF rest = <<>> THEN sorted
    ELSE sort_by(at, st, depth_map, insert_sorted(at, st, depth_map, sorted, Head(rest)),
                 Tail(rest))

\* variant: the index all_tasks is built from the primary tasks, not from
\* every task
current_tasks_of_primary_index(ts, ov, readings, grp, uid, query_text) ==
    LET my == my_tasks_of(ts, ov, readings, grp, uid, query_text)
        at == all_tasks_of([i \in DOMAIN my |-> my[i].task], ov)
        st == build_included(at, uid, my, [included |-> <<>>, added_ids |-> {}])
        depth_map == depth_map_of(at, st)
    IN  sort_by(at, st, depth_map, <<>>, st.included)

\* App::current_tasks on explicit inputs: Vec<DisplayTask>; readings are the
\* values its calls of Utc::now() return
current_tasks_of(ts, ov, readings, grp, uid, query_text) ==
    LET at == all_tasks_of(ts, ov)
        my == my_tasks_of(ts, ov, readings, grp, uid, query_text)
        st == build_included(at, uid, my, [included |-> <<>>, added_ids |-> {}])
        depth_map == depth_map_of(at, st)
    IN  sort_by(at, st, depth_map, <<>>, st.included)

\* App::current_tasks
current_tasks == current_tasks_of(tasks, overlays, now, current_group, user_id, search_query)

\* my_tasks and all_tasks of a call of current_tasks in the current state
my_tasks == my_tasks_of(tasks, overlays, now, current_group, user_id, search_query)

all_tasks == all_tasks_of(tasks, overlays)

\* the calls of Utc::now() a call of current_tasks makes in the current state
current_tasks_reads ==
    IF current_group = Person THEN 0 ELSE pass_reads(tasks, overlays, Len(tasks))

\* App::selected_task
selected_task ==
    IF selected_index < Len(current_tasks) THEN Some(current_tasks[selected_index + 1]) ELSE None

(***************************************************************************)
(* app.rs: fuzzy_score, search_all_tasks                                   *)
(***************************************************************************)
Digits == "0123456789"

\* char::is_alphanumeric on the ASCII range
is_alphanumeric(c) == contains(UpperCase, c) \/ contains(LowerCase, c) \/ contains(Digits, c)

\* char::is_ascii_digit
is_ascii_digit(c) == contains(Digits, c)

\* char::to_digit(10) of an ASCII digit
digit_value(c) == (CHOOSE i \in 1..Len(Digits) : CharAt(Digits, i) = c) - 1

\* the digit loop of str::parse for the integer types: an Option of the value
\* (texts here are short of the width of the type)
RECURSIVE parse_digits(_, _)
parse_digits(s, acc) ==
    IF Len(s) = 0 THEN Some(acc)
    ELSE IF is_ascii_digit(CharAt(s, 1))
         THEN parse_digits(SubSeq(s, 2, Len(s)), acc * 10 + digit_value(CharAt(s, 1)))
         ELSE None

\* str::parse::<u64>().ok(): an optional '+', then one digit or more
parse_u64(s) ==
    LET digits == IF Len(s) > 0 /\ CharAt(s, 1) = "+" THEN SubSeq(s, 2, Len(s)) ELSE s
    IN  IF Len(digits) = 0 THEN None ELSE parse_digits(digits, 0)

\* App::set_user_id: the value self.user_id gets
set_user_id(text) == parse_u64(text)

\* variant: only the start of the text is a word boundary
word_boundary_start_only(text_chars, text_idx) == text_idx = 0

\* `text_idx == 0 || !text_chars[text_idx - 1].is_alphanumeric()`
word_boundary(text_chars, text_idx) ==
    text_idx = 0 \/ ~is_alphanumeric(CharAt(text_chars, text_idx))

\* the locals of fuzzy_score before the scan
ScanStart == [query_idx |-> 0, score |-> 0, last_match_idx |-> None, consecutive_bonus |-> 0]

\* the loop `for (text_idx, &tc) in text_chars.iter().enumerate()`, from
\* text_idx on (text_idx counts from 0)
RECURSIVE fuzzy_scan(_, _, _, _)
fuzzy_scan(text_chars, query_chars, text_idx, acc) ==
    IF text_idx >= Len(text_chars) THEN acc
    ELSE LET tc == CharAt(text_chars, text_idx + 1)
             hit == /\ acc.query_idx < Len(query_chars)
                    /\ tc = CharAt(query_chars, acc.query_idx + 1)
             consecutive == /\ IsSome(acc.last_match_idx)
                            /\ text_idx = Unwrap(acc.last_match_idx) + 1
         IN  fuzzy_scan(text_chars, query_chars, text_idx + 1,
                IF hit
                THEN [query_idx |-> acc.query_idx + 1,
                      score |-> acc.score
                                + (IF word_boundary(text_chars, text_idx) THEN 10 ELSE 0) + 1,
                      last_match_idx |-> Some(text_idx),
                      consecutive_bonus |-> acc.consecutive_bonus
                                            + (IF consecutive THEN 5 ELSE 0)]
                ELSE acc)

\* variant: the text is scanned as it is written, not lower-cased
fuzzy_score_as_written(text, query_chars) ==
    IF Len(query_chars) = 0 THEN Some(0)
    ELSE LET r == fuzzy_scan(text, query_chars, 0, ScanStart)
         IN  IF r.query_idx = Len(query_chars) THEN Some(r.score + r.consecutive_bonus)
             ELSE None

\* fuzzy_score: Option<i32>
fuzzy_score(text, query_chars) ==
    IF Len(query_chars) = 0 THEN Some(0)
    ELSE LET r == fuzzy_scan(to_lowercase(text), query_chars, 0, ScanStart)
         IN  IF r.query_idx = Len(query_chars) THEN Some(r.score + r.consecutive_bonus)
             ELSE None

\* Option::or_else
or_else(a, b) == IF IsSome(a) THEN a ELSE b

\* tags.iter().find_map(|tag| fuzzy_score(tag, &query_chars))
RECURSIVE find_map_tags(_, _)
find_map_tags(tags, query_chars) ==
    IF tags = <<>> THEN None
    ELSE or_else(fuzzy_score(Head(tags), query_chars), find_map_tags(Tail(tags), query_chars))

\* the greater of two Option<i32>, None below every Some
best_of(a, b) ==
    IF ~IsSome(a) THEN b
    ELSE IF ~IsSome(b) THEN a
    ELSE IF Unwrap(b) > Unwrap(a) THEN b ELSE a

\* the best score among the tags
RECURSIVE best_of_tags(_, _)
best_of_tags(tags, query_chars) ==
    IF tags = <<>> THEN None
    ELSE best_of(fuzzy_score(Head(tags), query_chars), best_of_tags(Tail(tags), query_chars))

\* variant: the score of a task is the best score among its fields
task_score_best_field(dt, query_chars) ==
    best_of(fuzzy_score(dt.task.name, query_chars),
      best_of(fuzzy_score(dt.task.list_name, query_chars),
        best_of(fuzzy_score(dt.task.status, query_chars),
          best_of(IF IsSome(dt.task.description)
                  THEN fuzzy_score(Unwrap(dt.task.description), query_chars)
                  ELSE None,
                  best_of_tags(dt.task.tags, query_chars)))))

\* the or_else chain of the filter_map closure
task_score(dt, query_chars) ==
    or_else(fuzzy_score(dt.task.name, query_chars),
      or_else(fuzzy_score(dt.task.list_name, query_chars),
        or_else(fuzzy_score(dt.task.status, query_chars),
          or_else(IF IsSome(dt.task.description)
                  THEN fuzzy_score(Unwrap(dt.task.description), query_chars)
                  ELSE None,
                  find_map_tags(dt.task.tags, query_chars)))))

\* the filter_map over self.tasks: Vec<(DisplayTask, i32)>
scored_results(ts, ov, query_chars) ==
    LET scored == [i \in DOMAIN ts |->
                      <<display(ov, ts[i]), task_score(display(ov, ts[i]), query_chars)>>]
        kept == SelectSeq(scored, LAMBDA r : IsSome(r[2]))
    IN  [i \in DOMAIN kept |-> <<kept[i][1], Unwrap(kept[i][2])>>]

\* variant: an unstable sort, x goes before the elements of equal score
RECURSIVE insert_by_score_unstable(_, _)
insert_by_score_unstable(sorted, x) ==
    IF sorted = <<>> THEN <<x>>
    ELSE LET last == sorted[Len(sorted)]
         IN  IF cmp_int(x[2], last[2]) /= Less
             THEN Append(insert_by_score_unstable(SubSeq(sorted, 1, Len(sorted) - 1), x), last)
             ELSE Append(sorted, x)

\* results.sort_by(|a, b| b.1.cmp(&a.1)), a stable sort
RECURSIVE insert_by_score(_, _)
insert_by_score(sorted, x) ==
    IF sorted = <<>> THEN <<x>>
    ELSE LET last == sorted[Len(sorted)]
         IN  IF cmp_int(x[2], last[2]) = Greater
             THEN Append(insert_by_score(SubSeq(sorted, 1, Len(sorted) - 1), x), last)
             ELSE Append(sorted, x)

RECURSIVE sort_by_score(_, _)
sort_by_score(sorted, rest) ==
    IF rest = <<>> THEN sorted
    ELSE sort_by_score(insert_by_score(sorted, Head(rest)), Tail(rest))

\* variant: no early return on the empty query
search_all_tasks_unguarded(ts, ov, query_text) ==
    LET results == sort_by_score(<<>>, scored_results(ts, ov, to_lowercase(query_text)))
    IN  [i \in DOMAIN results |-> results[i][1]]

\* App::search_all_tasks on explicit inputs
search_all_tasks_of(ts, ov, query_text) ==
    IF Len(query_text) = 0 THEN <<>>
    ELSE LET results == sort_by_score(<<>>, scored_results(ts, ov, to_lowercase(query_text)))
         IN  [i \in DOMAIN results |-> results[i][1]]

\* App::search_all_tasks
search_all_tasks == search_all_tasks_of(tasks, overlays, search_query)

\* App::selected_search_result
selected_search_result ==
    IF search_selected_index < Len(search_all_tasks)
    THEN Some(search_all_tasks[search_selected_index + 1])
    ELSE None

(***************************************************************************)
(* Inputs.  A task as convert_task builds it; url and due_date take no     *)
(* part in any rule of the engine and are left out.                        *)
(***************************************************************************)
BaseTask ==
    [id |-> "a", name |-> "Task", status |-> "open", list_name |-> "List",
     priority |-> None, tags |-> <<>>, description |-> None, custom_item_id |-> None,
     custom_id |-> None, parent_id |-> None, assignee_ids |-> {}]

Range(s) == {s[i] : i \in DOMAIN s}

\* the state of App::new() for the fields no input decides
FreshApp ==
    /\ current_group = MyAction
    /\ selected_index = 0
    /\ input_mode = "Normal"
    /\ status_message = None
    /\ search_selected_index = 0
    /\ snooze_input = ""

\* no call of current_tasks is in progress
NoCall ==
    /\ pc = "idle"
    /\ ct_my_idx = 0
    /\ ct_ancestors = <<>>
    /\ ct_current_parent_id = None
    /\ ct_included = <<>>
    /\ ct_added_ids = {}
    /\ ct_inc_idx = 0
    /\ ct_depth = 0
    /\ ct_pid = None
    /\ ct_depth_map = <<>>
    /\ ct_steps = 0
    /\ returned = <<>>

(***************************************************************************)
(* CountSpec: the classifier and the group counter under the clock and the *)
(* overlay operations of LocalState.                                       *)
(***************************************************************************)
MaxCountTasks == 1
MaxTime == 1
MaxDays == 2

\* the values the system clock can return to n successive calls of Utc::now(),
\* between the instants lo and hi: the clock never goes back
RECURSIVE rising(_, _, _)
rising(n, lo, hi) ==
    IF n = 0 THEN {<<>>}
    ELSE UNION {{<<v>> \o c : c \in rising(n - 1, v, hi)} : v \in lo..hi}

\* a run of readings without the readings at its end that repeat the one
\* before them: read_at gives the same values for both
RECURSIVE shortest(_)
shortest(c) ==
    IF Len(c) > 1 /\ c[Len(c)] = c[Len(c) - 1] THEN shortest(SubSeq(c, 1, Len(c) - 1)) ELSE c

\* the runs of the clock during an operation that reads it n times (each
\* written without its repeated end): the clock may move on between any two
\* of the reads
ClockRuns(n, lo, hi) == {shortest(c) : c \in rising(IF n > 1 THEN n ELSE 1, lo, hi)}

\* the most calls of Utc::now() one operation makes in the current state:
\* group_counts makes five passes, current_tasks at most one, and
\* confirm_snooze reads once more after its current_tasks
most_reads ==
    LET one_pass == pass_reads(tasks, overlays, Len(tasks))
    IN  IF group_counts_reads > one_pass + 1 THEN group_counts_reads ELSE one_pass + 1

CountIds == <<"a", "b", "c", "d">>
\* status and custom_item_id of the tasks of the longer lists
CountKinds == {<<"ToDo", None>>, <<"DONE", None>>, <<"wip", Some(PERSON_ITEM_ID)>>}

\* the status table of the classifier, by category
MyActionStatuses == {"in progress", "to do", "todo", "to-do", "in review", "review", "to review"}
WaitingStatuses == {"blocked", "in testing", "testing", "to validate", "validation", "pending review"}
BacklogStatuses == {"backlog", "open", "new"}
DoneStatuses == {"done", "complete", "completed", "closed", "released", "deployed", "shipped",
                 "cancelled", "canceled", "won't do", "wontdo", "for reference"}
TableStatuses == MyActionStatuses \cup WaitingStatuses \cup BacklogStatuses \cup DoneStatuses

UpperOf ==
    [c \in {CharAt(LowerCase, i) : i \in 1..Len(LowerCase)} |->
        CharAt(UpperCase, CHOOSE i \in 1..Len(LowerCase) : CharAt(LowerCase, i) = c)]

char_to_uppercase(c) == IF c \in DOMAIN UpperOf THEN UpperOf[c] ELSE c

RECURSIVE to_uppercase(_)
to_uppercase(s) ==
    IF Len(s) = 0 THEN ""
    ELSE char_to_uppercase(CharAt(s, 1)) \o to_uppercase(SubSeq(s, 2, Len(s)))

\* first letter in upper case
capitalized(s) ==
    IF Len(s) = 0 THEN "" ELSE char_to_uppercase(CharAt(s, 1)) \o SubSeq(s, 2, Len(s))

UnknownStatuses == {"", "triage", "in  progress", "done ", "inprogress", "Doing"}

StatusInputs ==
    TableStatuses \cup {to_uppercase(s) : s \in TableStatuses}
        \cup {capitalized(s) : s \in TableStatuses} \cup UnknownStatuses

CountTaskLists ==
    UNION {
        {[i \in 1..n |-> [BaseTask EXCEPT !.id = CountIds[i], !.status = f[i][1],
                                          !.custom_item_id = f[i][2]]] :
            f \in [1..n -> CountKinds]} : n \in 0..MaxCountTasks}
    \cup {<<[BaseTask EXCEPT !.status = s, !.custom_item_id = c]>> :
            s \in StatusInputs, c \in {None, Some(0), Some(PERSON_ITEM_ID)}}

CountInit ==
    /\ tasks \in CountTaskLists
    /\ overlays = EmptyOverlays
    /\ user_id = None
    /\ search_query = ""
    /\ now \in {c \in ClockRuns(most_reads, 0, MaxTime) : c[1] = 0}
    /\ FreshApp
    /\ NoCall

\* time passes: the next operation reads the clock later, one of runs, and
\* the clock may move on between its reads
clock_moves(runs) ==
    /\ \E c \in runs :
          /\ c[1] >= now[Len(now)]
          /\ c /= now
          /\ now' = c
    /\ UNCHANGED appVars
    /\ UNCHANGED callVars

ClockTick == clock_moves(ClockRuns(most_reads, 0, MaxTime))

\* LocalState::snooze(task_id, Utc::now() + Duration::days(days))
LocalStateSnooze ==
    \E i \in DOMAIN tasks, days \in 0..MaxDays :
        /\ overlays' = snooze(overlays, tasks[i].id, read_at(now, 1) + days)
        /\ UNCHANGED <<tasks, current_group, selected_index, search_query, input_mode,
                       status_message, search_selected_index, user_id, now, snooze_input>>
        /\ UNCHANGED callVars

\* LocalState::unsnooze(task_id)
LocalStateUnsnooze ==
    \E i \in DOMAIN tasks :
        /\ overlays' = unsnooze(overlays, tasks[i].id)
        /\ UNCHANGED <<tasks, current_group, selected_index, search_query, input_mode,
                       status_message, search_selected_index, user_id, now, snooze_input>>
        /\ UNCHANGED callVars

CountNext == ClockTick \/ LocalStateSnooze \/ LocalStateUnsnooze

CountSpec == CountInit /\ [][CountNext]_vars

(***************************************************************************)
(* ViewSpec: the working set of every tab, under the navigation keys of    *)
(* Normal mode (run_app).  The task list, the overlays and the user id are *)
(* those found at start-up (cache, state file, config); search_query is    *)
(* what an earlier search left behind (Enter in Search mode keeps it).     *)
(* Parent references are acyclic here.                                     *)
(***************************************************************************)
ViewIds == <<"a", "b", "c">>
ViewNow == 1

\* the parent chain from pid ends within fuel steps
RECURSIVE ChainEnds(_, _, _)
ChainEnds(ts, pid, fuel) ==
    IF ~IsSome(pid) \/ ~(\E i \in DOMAIN ts : ts[i].id = Unwrap(pid)) THEN TRUE
    ELSE IF fuel = 0 THEN FALSE
    ELSE ChainEnds(ts, (CHOOSE t \in Range(ts) : t.id = Unwrap(pid)).parent_id, fuel - 1)

Acyclic(ts) == \A i \in DOMAIN ts : ChainEnds(ts, ts[i].parent_id, Len(ts))

ViewInput(ts, ov, uid, query_text) ==
    [tasks |-> ts, overlays |-> ov, user_id |-> uid, search_query |-> query_text]

\* hierarchies: every acyclic parent structure on up to three tasks (parents
\* in the list or missing from it), assigned to user 1 or to nobody
HierTaskLists ==
    UNION {
        {ts \in
            {[i \in 1..n |-> [BaseTask EXCEPT !.id = ViewIds[i], !.parent_id = f[i][1],
                                              !.assignee_ids = f[i][2], !.status = f[i][3]]] :
                f \in [1..n -> ({None, Some("zz")} \cup {Some(ViewIds[j]) : j \in 1..n})
                               \X {{}, {1}} \X {"open", "Done"}]} :
            Acyclic(ts)} : n \in 0..Len(ViewIds)}

\* the user_id texts of the config file
UserIdConfigs == {"1", "+1", "me", "1x"}

HierInputs ==
    {ViewInput(ts, EmptyOverlays, set_user_id(c), "") : ts \in HierTaskLists, c \in UserIdConfigs}

\* a child a and its parent b in every pair of categories, with a text filter
MixKinds == {<<"open", None>>, <<"Done", None>>, <<"open", Some(PERSON_ITEM_ID)>>}

MixTaskLists ==
    {<<[BaseTask EXCEPT !.id = "a", !.name = "Fix login", !.parent_id = Some("b"),
                        !.status = ka[1], !.custom_item_id = ka[2], !.assignee_ids = {1}],
       [BaseTask EXCEPT !.id = "b", !.name = "Epic", !.status = kb[1],
                        !.custom_item_id = kb[2], !.assignee_ids = asb]>> :
        ka \in MixKinds, kb \in MixKinds, asb \in {{}, {1}}}

MixOverlays ==
    {EmptyOverlays,
     snooze(EmptyOverlays, "b", ViewNow + 1),
     snooze(EmptyOverlays, "a", ViewNow + 1),
     snooze(snooze(EmptyOverlays, "a", ViewNow), "b", ViewNow + 1),
     snooze(snooze(EmptyOverlays, "a", ViewNow + 1), "b", ViewNow + 1)}

MixInputs ==
    {ViewInput(ts, ov, uid, q) :
        ts \in MixTaskLists, ov \in MixOverlays, uid \in {None, Some(1)}, q \in {"", "FIX"}}

\* one task whose text fields, tags and custom id do or do not hold the query
TextTaskLists ==
    {<<[BaseTask EXCEPT !.name = f[1], !.list_name = f[2], !.status = f[3],
                        !.description = f[4], !.tags = f[5], !.custom_id = f[6]]>> :
        f \in {"Task", "Grab it"} \X {"List", "Lab"} \X {"open", "ABANDONED"}
              \X {None, Some("see tab 2")} \X {<<>>, <<"abc", "x">>} \X {None, Some("AB-1")}}

TextInputs ==
    {ViewInput(ts, EmptyOverlays, None, q) : ts \in TextTaskLists, q \in {"", "ab", "AB", "k"}}

ViewInputs == HierInputs \cup MixInputs \cup TextInputs

\* the clock during a query, around the instant ViewNow + 1 at which the
\* snoozes of the inputs end
ViewClocks(n) == ClockRuns(n, ViewNow, ViewNow + 1)

\* without a snoozed_until on a task that is not a Person task no query reads
\* the clock
ViewInit ==
    /\ \E inp \in ViewInputs :
          /\ tasks = inp.tasks
          /\ overlays = inp.overlays
          /\ user_id = inp.user_id
          /\ search_query = inp.search_query
    /\ now \in IF group_counts_reads = 0 THEN {<<ViewNow>>} ELSE ViewClocks(most_reads)
    /\ FreshApp
    /\ NoCall

\* App::switch_group, keys '1'..'6'
switch_group(grp) ==
    /\ input_mode = "Normal"
    /\ status_message' = None
    /\ current_group' = grp
    /\ selected_index' = 0
    /\ UNCHANGED <<tasks, overlays, search_query, input_mode, search_selected_index,
                   user_id, now, snooze_input>>
    /\ UNCHANGED callVars

\* App::next_tab, key 'l'
next_tab ==
    /\ IsSome(from_index((index(current_group) + 1) % Len(all)))
    /\ switch_group(Unwrap(from_index((index(current_group) + 1) % Len(all))))

\* App::prev_tab, key 'h'
prev_tab ==
    /\ IsSome(from_index((index(current_group) + Len(all) - 1) % Len(all)))
    /\ switch_group(Unwrap(from_index((index(current_group) + Len(all) - 1) % Len(all))))

\* usize::saturating_sub
saturating_sub(x, y) == IF x >= y THEN x - y ELSE 0

\* App::select_next, key 'j' or Down with the task list focused
select_next ==
    /\ input_mode = "Normal"
    /\ status_message' = None
    /\ selected_index' =
          IF selected_index < saturating_sub(Len(current_tasks), 1)
          THEN selected_index + 1
          ELSE selected_index
    /\ UNCHANGED <<tasks, overlays, current_group, search_query, input_mode,
                   search_selected_index, user_id, now, snooze_input>>
    /\ UNCHANGED callVars

\* App::select_prev, key 'k' or Up with the task list focused
select_prev ==
    /\ input_mode = "Normal"
    /\ status_message' = None
    /\ selected_index' = IF selected_index > 0 THEN selected_index - 1 ELSE selected_index
    /\ UNCHANGED <<tasks, overlays, current_group, search_query, input_mode,
                   search_selected_index, user_id, now, snooze_input>>
    /\ UNCHANGED callVars

ViewNext ==
    \/ \E grp \in Range(all) : switch_group(grp)
    \/ next_tab
    \/ prev_tab
    \/ select_next
    \/ select_prev

ViewSpec == ViewInit /\ [][ViewNext]_vars

(***************************************************************************)
(* SortSpec: the order of the working set, under the same navigation keys. *)
(* Three tasks in every acyclic parent structure, with and without a       *)
(* priority, open or done, listed in ascending and in descending id order; *)
(* and a chain of three that the assignment filter truncates.              *)
(***************************************************************************)
SortIds == <<"a", "9", "10">>

SortPriorities == {None, Some(1), Some(2)}

SortOrders == {<<1, 2, 3>>, <<3, 2, 1>>}

SortTaskLists ==
    {ts \in
        {[i \in 1..Len(SortIds) |->
            [BaseTask EXCEPT !.id = SortIds[ord[i]], !.parent_id = f[ord[i]][1],
                             !.priority = f[ord[i]][2], !.status = f[ord[i]][3]]] :
            f \in [1..Len(SortIds) ->
                      ({None} \cup {Some(SortIds[j]) : j \in 1..Len(SortIds)})
                      \X SortPriorities \X {"open", "Done"}],
            ord \in SortOrders} :
        Acyclic(ts)}

\* the chain a -> 9 -> 10 under the filter of user 1
TruncTaskLists ==
    {[i \in 1..Len(SortIds) |->
        [BaseTask EXCEPT !.id = SortIds[i],
                         !.parent_id = IF i < Len(SortIds) THEN Some(SortIds[i + 1]) ELSE None,
                         !.priority = f[i][1], !.assignee_ids = f[i][2]]] :
        f \in [1..Len(SortIds) -> SortPriorities \X {{}, {1}}]}

SortInputs ==
    {ViewInput(ts, EmptyOverlays, None, "") : ts \in SortTaskLists}
    \cup {ViewInput(ts, EmptyOverlays, Some(1), "") : ts \in TruncTaskLists}

SortInit ==
    /\ \E inp \in SortInputs :
          /\ tasks = inp.tasks
          /\ overlays = inp.overlays
          /\ user_id = inp.user_id
          /\ search_query = inp.search_query
    /\ now = <<ViewNow>>
    /\ FreshApp
    /\ NoCall

SortSpec == SortInit /\ [][ViewNext]_vars

(***************************************************************************)
(* SearchSpec: the global search under the keys of Search mode (run_app).  *)
(* The query is typed one character at a time, up to MaxQuery characters.  *)
(***************************************************************************)
MaxQuery == 2

SearchKeys == {"t", "c", "T", "x"}

\* one task whose fields do or do not hold t and c in order
FieldTaskLists ==
    {<<[BaseTask EXCEPT !.name = f[1], !.list_name = f[2], !.status = f[3],
                        !.description = f[4], !.tags = f[5]]>> :
        f \in {"Bug", "Task Create"} \X {"Ops", "xtycx"} \X {"open", "etc"}
              \X {None, Some("T_C")} \X {<<>>, <<"x", "Tic-Tac">>}}

\* several tasks whose scores differ, or differ by the field that is scored
RankTaskLists ==
    {<<>>,
     <<[BaseTask EXCEPT !.id = "a", !.name = "xtycx", !.list_name = "Task Create"],
       [BaseTask EXCEPT !.id = "b", !.name = "etc", !.list_name = "Ops"]>>,
     <<[BaseTask EXCEPT !.id = "a", !.name = "xtycx", !.list_name = "Ops"],
       [BaseTask EXCEPT !.id = "b", !.name = "Card", !.list_name = "Ops"],
       [BaseTask EXCEPT !.id = "c", !.name = "Task Create", !.list_name = "Ops"]>>,
     <<[BaseTask EXCEPT !.id = "a", !.name = "Bug", !.list_name = "Ops",
                        !.tags = <<"etc", "t c">>],
       [BaseTask EXCEPT !.id = "b", !.name = "Bug", !.list_name = "Ops",
                        !.description = Some("attic")]>>,
     <<[BaseTask EXCEPT !.id = "c", !.name = "xtycx", !.list_name = "Ops"],
       [BaseTask EXCEPT !.id = "b", !.name = "Card", !.list_name = "Ops"],
       [BaseTask EXCEPT !.id = "a", !.name = "Create", !.list_name = "Ops"]>>}

SearchTaskLists == FieldTaskLists \cup RankTaskLists

SearchInit ==
    /\ tasks \in SearchTaskLists
    /\ overlays = EmptyOverlays
    /\ user_id = None
    /\ search_query = ""
    /\ now = <<ViewNow>>
    /\ FreshApp
    /\ NoCall

\* App::start_search, key '/' in Normal mode
start_search ==
    /\ input_mode = "Normal"
    /\ status_message' = None
    /\ input_mode' = "Search"
    /\ search_query' = ""
    /\ search_selected_index' = 0
    /\ UNCHANGED <<tasks, overlays, current_group, selected_index, user_id, now, snooze_input>>
    /\ UNCHANGED callVars

\* App::cancel_input, key Esc in Search mode and in Snooze mode
cancel_input ==
    /\ pc = "idle"
    /\ input_mode \in {"Search", "Snooze"}
    /\ status_message' = None
    /\ input_mode' = "Normal"
    /\ search_query' = ""
    /\ snooze_input' = ""
    /\ UNCHANGED <<tasks, overlays, current_group, selected_index, search_selected_index,
                   user_id, now>>
    /\ UNCHANGED callVars

\* what open::that's error writes for `{}` when the browser cannot be started
OpenErrors == {"No such file or directory (os error 2)",
               "Permission denied (os error 13)"}

\* key Enter in Search mode: the selected result, if any, is opened in the
\* browser, which succeeds or fails with an error; the query stays
search_enter ==
    /\ input_mode = "Search"
    /\ IF IsSome(selected_search_result)
       THEN \/ status_message' = Some("Opened in browser")
            \/ \E e \in OpenErrors : status_message' = Some("Failed to open: " \o e)
       ELSE status_message' = None
    /\ input_mode' = "Normal"
    /\ UNCHANGED <<tasks, overlays, current_group, selected_index, search_query,
                   search_selected_index, user_id, now, snooze_input>>
    /\ UNCHANGED callVars

\* variant: typing a character keeps the selected result index
handle_char_keep_index(c) ==
    /\ input_mode = "Search"
    /\ Len(search_query) < MaxQuery
    /\ status_message' = None
    /\ search_query' = search_query \o c
    /\ UNCHANGED <<tasks, overlays, current_group, selected_index, input_mode, user_id, now,
                   search_selected_index, snooze_input>>
    /\ UNCHANGED callVars

\* App::handle_char in Search mode, a character key
handle_char(c) ==
    /\ input_mode = "Search"
    /\ Len(search_query) < MaxQuery
    /\ status_message' = None
    /\ search_query' = search_query \o c
    /\ search_selected_index' = 0
    /\ UNCHANGED <<tasks, overlays, current_group, selected_index, input_mode, user_id, now,
                   snooze_input>>
    /\ UNCHANGED callVars

\* App::handle_backspace in Search mode
handle_backspace ==
    /\ input_mode = "Search"
    /\ status_message' = None
    /\ search_query' = SubSeq(search_query, 1, saturating_sub(Len(search_query), 1))
    /\ search_selected_index' = 0
    /\ UNCHANGED <<tasks, overlays, current_group, selected_index, input_mode, user_id, now,
                   snooze_input>>
    /\ UNCHANGED callVars

\* App::search_select_next, key Down in Search mode
search_select_next ==
    /\ input_mode = "Search"
    /\ status_message' = None
    /\ search_selected_index' =
          IF search_selected_index < saturating_sub(Len(search_all_tasks), 1)
          THEN search_selected_index + 1
          ELSE search_selected_index
    /\ UNCHANGED <<tasks, overlays, current_group, selected_index, search_query, input_mode,
                   user_id, now, snooze_input>>
    /\ UNCHANGED callVars

\* App::search_select_prev, key Up in Search mode
search_select_prev ==
    /\ input_mode = "Search"
    /\ status_message' = None
    /\ search_selected_index' =
          IF search_selected_index > 0 THEN search_selected_index - 1 ELSE search_selected_index
    /\ UNCHANGED <<tasks, overlays, current_group, selected_index, search_query, input_mode,
                   user_id, now, snooze_input>>
    /\ UNCHANGED callVars

SearchNext ==
    \/ start_search
    \/ cancel_input
    \/ search_enter
    \/ \E c \in SearchKeys : handle_char(c)
    \/ handle_backspace
    \/ search_select_next
    \/ search_select_prev

SearchSpec == SearchInit /\ [][SearchNext]_vars

(***************************************************************************)
(* CommandSpec: main from the initial refresh on and the keys of run_app   *)
(* in its four modes.  The fields of App outside the variables             *)
(* (focused_pane, preview_scroll, last_refresh) are left out; is_loading,  *)
(* show_help and should_quit can be read off pc and input_mode.  The clock *)
(* counts days, the unit of the snooze prompt: it moves while the program  *)
(* waits for a key or for the fetch, by up to MaxDays days in all, and     *)
(* reads the same day from the handling of a key to the end of the drawing *)
(* that follows it, which takes less than a day.  The snooze               *)
(* prompt takes up to MaxCommandDigits characters.  SnoozeSpec: the snooze *)
(* prompt with up to MaxDigits characters, enough for a number of days     *)
(* that leads past the last DateTime<Utc>.                                 *)
(***************************************************************************)
\* str::parse::<i64>().ok(): an optional sign, then one digit or more
parse_i64(s) ==
    LET signed == Len(s) > 0 /\ CharAt(s, 1) \in {"+", "-"}
        digits == IF signed THEN SubSeq(s, 2, Len(s)) ELSE s
        value  == parse_digits(digits, 0)
    IN  IF Len(digits) = 0 \/ ~IsSome(value) THEN None
        ELSE IF CharAt(s, 1) = "-" THEN Some(0 - Unwrap(value))
        ELSE value

\* Display for integers, as format!("{}", n) writes them (n >= 0 here)
RECURSIVE int_to_string(_)
int_to_string(n) ==
    IF n < 10 THEN CharAt(Digits, n + 1)
    ELSE int_to_string(n \div 10) \o CharAt(Digits, (n % 10) + 1)

\* the days from day 0 of the clock, 2026-10-29, to the day of the last
\* DateTime<Utc>, 262142-12-31
DateTimeMaxDays == 95005481

\* Utc::now() + Duration::days(days): the sum, or None where the operator
\* `+` panics because the sum is past the last DateTime<Utc>
checked_add_days(clock, days) ==
    IF clock + days > DateTimeMaxDays THEN None ELSE Some(clock + days)

\* App::toggle_pin, key 'p'
App_toggle_pin ==
    /\ pc = "idle"
    /\ input_mode = "Normal"
    /\ IF IsSome(selected_task)
       THEN LET id == Unwrap(selected_task).task.id
            IN  /\ overlays' = toggle_pin(overlays, id)
                /\ status_message' = Some(IF is_pinned(toggle_pin(overlays, id), id)
                                          THEN "Task pinned" ELSE "Task unpinned")
       ELSE /\ overlays' = overlays
            /\ status_message' = None
    /\ UNCHANGED <<tasks, current_group, selected_index, search_query, input_mode,
                   search_selected_index, snooze_input, user_id, now>>
    /\ UNCHANGED callVars

\* App::start_snooze, key 's'
start_snooze ==
    /\ pc = "idle"
    /\ input_mode = "Normal"
    /\ IF IsSome(selected_task)
       THEN /\ input_mode' = "Snooze"
            /\ snooze_input' = ""
            /\ status_message' = Some("Snooze for how many days? (Enter number)")
       ELSE /\ status_message' = None
            /\ UNCHANGED <<input_mode, snooze_input>>
    /\ UNCHANGED <<tasks, overlays, current_group, selected_index, search_query,
                   search_selected_index, user_id, now>>
    /\ UNCHANGED callVars

\* App::handle_char in Snooze mode, a character key
handle_char_snooze(c) ==
    /\ pc = "idle"
    /\ input_mode = "Snooze"
    /\ status_message' = None
    /\ snooze_input' = IF is_ascii_digit(c) THEN snooze_input \o c ELSE snooze_input
    /\ UNCHANGED <<tasks, overlays, current_group, selected_index, search_query, input_mode,
                   search_selected_index, user_id, now>>
    /\ UNCHANGED callVars

\* App::handle_backspace in Snooze mode
handle_backspace_snooze ==
    /\ pc = "idle"
    /\ input_mode = "Snooze"
    /\ status_message' = None
    /\ snooze_input' = SubSeq(snooze_input, 1, saturating_sub(Len(snooze_input), 1))
    /\ UNCHANGED <<tasks, overlays, current_group, selected_index, search_query, input_mode,
                   search_selected_index, user_id, now>>
    /\ UNCHANGED callVars

\* App::confirm_snooze, key Enter in Snooze mode.  Where the date sum panics
\* the process stops there, before anything is written.
confirm_snooze ==
    /\ pc = "idle"
    /\ input_mode = "Snooze"
    /\ LET parsed == parse_i64(snooze_input)
           snoozing == IsSome(parsed) /\ IsSome(selected_task)
           until == IF snoozing
                    THEN checked_add_days(read_at(now, current_tasks_reads + 1), Unwrap(parsed))
                    ELSE None
       IN  IF snoozing /\ ~IsSome(until)
           THEN /\ pc' = "panicked"
                /\ status_message' = None
                /\ UNCHANGED <<overlays, input_mode, snooze_input>>
           ELSE /\ pc' = pc
                /\ overlays' = IF snoozing
                               THEN snooze(overlays, Unwrap(selected_task).task.id, Unwrap(until))
                               ELSE overlays
                /\ status_message' =
                      IF snoozing
                      THEN Some("Task snoozed for " \o int_to_string(Unwrap(parsed)) \o " days")
                      ELSE IF IsSome(parsed) THEN None
                      ELSE Some("Invalid number")
                /\ input_mode' = "Normal"
                /\ snooze_input' = ""
    /\ UNCHANGED <<tasks, current_group, selected_index, search_query,
                   search_selected_index, user_id, now>>
    /\ UNCHANGED <<ct_my_idx, ct_ancestors, ct_current_parent_id, ct_included, ct_added_ids,
                   ct_inc_idx, ct_depth, ct_pid, ct_depth_map, ct_steps, returned>>

\* App::unsnooze, key 'S'
App_unsnooze ==
    /\ pc = "idle"
    /\ input_mode = "Normal"
    /\ IF IsSome(selected_task)
       THEN /\ overlays' = unsnooze(overlays, Unwrap(selected_task).task.id)
            /\ status_message' = Some("Task unsnoozed")
       ELSE /\ overlays' = overlays
            /\ status_message' = None
    /\ UNCHANGED <<tasks, current_group, selected_index, search_query, input_mode,
                   search_selected_index, snooze_input, user_id, now>>
    /\ UNCHANGED callVars

\* App::open_in_browser, key 'o' or Enter in Normal mode: open::that starts
\* the browser or fails with an error
open_in_browser ==
    /\ pc = "idle"
    /\ input_mode = "Normal"
    /\ IF IsSome(selected_task)
       THEN \/ status_message' = Some("Opened in browser")
            \/ \E e \in OpenErrors : status_message' = Some("Failed to open: " \o e)
       ELSE status_message' = None
    /\ UNCHANGED <<tasks, overlays, current_group, selected_index, search_query, input_mode,
                   search_selected_index, snooze_input, user_id, now>>
    /\ UNCHANGED callVars

\* what the errors of arboard::Clipboard::new and of set_text write for `{}`
ClipboardErrors ==
    {"The selected clipboard is not supported with the current system configuration."}

\* App::copy_to_clipboard, key 'y': the clipboard cannot be opened, or the
\* name of the selected task is written to it, or the writing fails
copy_to_clipboard ==
    /\ pc = "idle"
    /\ input_mode = "Normal"
    /\ IF IsSome(selected_task)
       THEN \/ status_message' = Some("Copied task name")
            \/ \E e \in ClipboardErrors : status_message' = Some("Failed to copy: " \o e)
            \/ \E e \in ClipboardErrors : status_message' = Some("Clipboard error: " \o e)
       ELSE status_message' = None
    /\ UNCHANGED <<tasks, overlays, current_group, selected_index, search_query, input_mode,
                   search_selected_index, snooze_input, user_id, now>>
    /\ UNCHANGED callVars

\* key '?' in Normal mode: show_help is set and the mode is Help (show_help is
\* true exactly in Help mode)
open_help ==
    /\ pc = "idle"
    /\ input_mode = "Normal"
    /\ status_message' = None
    /\ input_mode' = "Help"
    /\ UNCHANGED <<tasks, overlays, current_group, selected_index, search_query,
                   search_selected_index, snooze_input, user_id, now>>
    /\ UNCHANGED callVars

\* key Esc, 'q' or '?' in Help mode
close_help ==
    /\ pc = "idle"
    /\ input_mode = "Help"
    /\ status_message' = None
    /\ input_mode' = "Normal"
    /\ UNCHANGED <<tasks, overlays, current_group, selected_index, search_query,
                   search_selected_index, snooze_input, user_id, now>>
    /\ UNCHANGED callVars

\* a key press that changes none of the fields above: a key without a handler
\* in the mode at hand, Tab and BackTab (focused_pane), 'j' and 'k' with the
\* preview pane focused (preview_scroll).  clear_status has run.
other_key ==
    /\ pc = "idle"
    /\ status_message' = None
    /\ UNCHANGED <<tasks, overlays, current_group, selected_index, search_query, input_mode,
                   search_selected_index, snooze_input, user_id, now>>
    /\ UNCHANGED callVars

\* key 'q' in Normal mode: should_quit is set and run_app leaves its loop
quit ==
    /\ pc = "idle"
    /\ input_mode = "Normal"
    /\ status_message' = None
    /\ pc' = "quit"
    /\ UNCHANGED <<tasks, overlays, current_group, selected_index, search_query, input_mode,
                   search_selected_index, snooze_input, user_id, now>>
    /\ UNCHANGED callLocals

\* the task lists a fetch brings: the second task is of the Person type in
\* one of them
CommandTaskLists ==
    {<<[BaseTask EXCEPT !.id = "a", !.name = "x", !.status = "to do"],
       [BaseTask EXCEPT !.id = "b", !.name = "xy", !.status = "to do"]>>,
     <<[BaseTask EXCEPT !.id = "a", !.name = "x", !.status = "to do"],
       [BaseTask EXCEPT !.id = "b", !.name = "xy", !.status = "to do",
                        !.custom_item_id = Some(PERSON_ITEM_ID)]>>}

\* what the error of fetch_tasks writes for `{}`
FetchErrors == {"Failed to fetch teams", "No teams found in workspace"}

\* fetch_tasks has returned: App::set_tasks takes the list it brings, or the
\* error is shown after the words failed
fetch_returns(failed) ==
    /\ \/ /\ \E e \in FetchErrors : status_message' = Some(failed \o e)
          /\ UNCHANGED <<tasks, selected_index>>
       \/ \E ts \in CommandTaskLists :
             /\ tasks' = ts
             /\ selected_index' = 0
             /\ status_message' = Some("Loaded " \o int_to_string(Len(ts)) \o " tasks")
    /\ pc' = "idle"
    /\ UNCHANGED <<overlays, current_group, search_query, input_mode,
                   search_selected_index, snooze_input, user_id, now>>
    /\ UNCHANGED callLocals

\* main, from the loading of the cache to the call of run_app: the initial
\* refresh is made when auto_refresh is set or there are no cached tasks
initial_refresh ==
    /\ pc = "starting"
    /\ \/ fetch_returns("Failed to load: ")
       \/ /\ tasks /= <<>>
          /\ pc' = "idle"
          /\ UNCHANGED <<appVars, now>>
          /\ UNCHANGED callLocals

\* key 'r', up to the await of fetch_tasks: is_loading is set (it is true
\* exactly while a fetch is awaited), "Refreshing..." is shown and drawn
refresh ==
    /\ pc = "idle"
    /\ input_mode = "Normal"
    /\ status_message' = Some("Refreshing...")
    /\ pc' = "refreshing"
    /\ UNCHANGED <<tasks, overlays, current_group, selected_index, search_query, input_mode,
                   search_selected_index, snooze_input, user_id, now>>
    /\ UNCHANGED callLocals

\* key 'r', from the return of fetch_tasks
refresh_returns ==
    /\ pc = "refreshing"
    /\ fetch_returns("Failed: ")

MaxCommandDigits == 1
CommandKeys == {"0", "1", "2", "x"}

\* the days the clock can read
CommandClocks == {<<day>> : day \in ViewNow..(ViewNow + MaxDays)}

\* event::poll and the await of fetch_tasks, in main and in run_app: time
\* passes
wait ==
    /\ pc \in {"starting", "idle", "refreshing"}
    /\ clock_moves(CommandClocks)

\* the state main has built when it has loaded the local state and the
\* cached tasks, if there are any
CommandInit ==
    /\ tasks \in {<<>>} \cup CommandTaskLists
    /\ overlays = EmptyOverlays
    /\ user_id = None
    /\ search_query = ""
    /\ now = <<ViewNow>>
    /\ FreshApp
    /\ pc = "starting"
    /\ ct_my_idx = 0
    /\ ct_ancestors = <<>>
    /\ ct_current_parent_id = None
    /\ ct_included = <<>>
    /\ ct_added_ids = {}
    /\ ct_inc_idx = 0
    /\ ct_depth = 0
    /\ ct_pid = None
    /\ ct_depth_map = <<>>
    /\ ct_steps = 0
    /\ returned = <<>>

CommandNext ==
    \/ initial_refresh
    \/ \E grp \in Range(all) : pc = "idle" /\ switch_group(grp)
    \/ pc = "idle" /\ next_tab
    \/ pc = "idle" /\ prev_tab
    \/ pc = "idle" /\ select_next
    \/ pc = "idle" /\ select_prev
    \/ App_toggle_pin
    \/ start_snooze
    \/ \E c \in CommandKeys : Len(snooze_input) < MaxCommandDigits /\ handle_char_snooze(c)
    \/ handle_backspace_snooze
    \/ confirm_snooze
    \/ App_unsnooze
    \/ open_in_browser
    \/ copy_to_clipboard
    \/ refresh
    \/ refresh_returns
    \/ open_help
    \/ close_help
    \/ quit
    \/ other_key
    \/ pc = "idle" /\ start_search
    \/ pc = "idle" /\ handle_char("x")
    \/ pc = "idle" /\ handle_backspace
    \/ pc = "idle" /\ search_select_next
    \/ pc = "idle" /\ search_select_prev
    \/ pc = "idle" /\ search_enter
    \/ cancel_input
    \/ wait

CommandSpec == CommandInit /\ [][CommandNext]_vars

MaxDigits == 8
SnoozeKeys == {"9", "x"}

SnoozeInit ==
    /\ tasks = <<[BaseTask EXCEPT !.id = "a", !.name = "x", !.status = "to do"],
                 [BaseTask EXCEPT !.id = "b", !.name = "y", !.status = "to do"]>>
    /\ overlays = EmptyOverlays
    /\ user_id = None
    /\ search_query = ""
    /\ now = <<ViewNow>>
    /\ FreshApp
    /\ NoCall

SnoozeNext ==
    \/ \E grp \in {MyAction, Snoozed, Done} : pc = "idle" /\ switch_group(grp)
    \/ pc = "idle" /\ select_next
    \/ pc = "idle" /\ select_prev
    \/ start_snooze
    \/ \E c \in SnoozeKeys : Len(snooze_input) < MaxDigits /\ handle_char_snooze(c)
    \/ handle_backspace_snooze
    \/ confirm_snooze
    \/ App_unsnooze
    \/ cancel_input

SnoozeSpec == SnoozeInit /\ [][SnoozeNext]_vars

(***************************************************************************)
(* WalkSpec: one call of current_tasks, loop iteration by loop iteration,  *)
(* on task lists whose parent references may form cycles.  The memory has  *)
(* room for MaxWalk clones in `ancestors`: the push of one more fails to    *)
(* allocate and the process aborts.  The counter depth is kept at MaxWalk   *)
(* once it has reached it, and its loop goes on; the iterations of a loop   *)
(* are counted exactly up to MaxWalk and by their parity beyond.            *)
(***************************************************************************)
MaxWalk == 4

one_more_step(n) == IF n < MaxWalk THEN n + 1 ELSE IF n = MaxWalk THEN MaxWalk + 1 ELSE MaxWalk

WalkIds == <<"a", "b", "c">>

WalkTaskLists ==
    UNION {
        {[i \in 1..n |-> [BaseTask EXCEPT !.id = WalkIds[i], !.status = "To Do",
                                          !.parent_id = f[i][1], !.assignee_ids = f[i][2]]] :
            f \in [1..n -> ({None, Some("zz")} \cup {Some(WalkIds[j]) : j \in 1..n})
                           \X {{}, {1}}]} : n \in 0..Len(WalkIds)}

\* no task is snoozed, or, in the lists of a and b, both are snoozed until
\* the instant ViewNow + 1, which the clock reaches before, during or after
\* the call
WalkInit ==
    /\ tasks \in WalkTaskLists
    /\ \/ overlays = EmptyOverlays /\ now = <<ViewNow>>
       \/ /\ Len(tasks) = 2
          /\ overlays = snooze(snooze(EmptyOverlays, "a", ViewNow + 1), "b", ViewNow + 1)
          /\ now \in ViewClocks(pass_reads(tasks, overlays, Len(tasks)))
    /\ user_id \in {None, Some(1)}
    /\ search_query = ""
    /\ FreshApp
    /\ NoCall

\* current_tasks is called: all_tasks and my_tasks are built, the filter
\* reading the clock task by task (now), and included and added_ids are
\* created empty
ct_begin ==
    /\ pc = "idle"
    /\ pc' = "for_my"
    /\ ct_my_idx' = 1
    /\ ct_included' = <<>>
    /\ ct_added_ids' = {}
    /\ UNCHANGED <<ct_ancestors, ct_current_parent_id, ct_inc_idx, ct_depth, ct_pid,
                   ct_depth_map, ct_steps>>
    /\ UNCHANGED <<appVars, now, returned>>

\* `for dt in &my_tasks`: the next primary task, or on to depth_map
ct_for_my ==
    /\ pc = "for_my"
    /\ IF ct_my_idx <= Len(my_tasks)
       THEN /\ ct_ancestors' = <<>>
            /\ ct_current_parent_id' = my_tasks[ct_my_idx].task.parent_id
            /\ ct_steps' = 0
            /\ pc' = "walk"
            /\ UNCHANGED <<ct_inc_idx, ct_depth_map>>
       ELSE /\ pc' = "for_included"
            /\ ct_inc_idx' = 1
            /\ ct_depth_map' = <<>>
            /\ UNCHANGED <<ct_ancestors, ct_current_parent_id, ct_steps>>
    /\ UNCHANGED <<ct_my_idx, ct_included, ct_added_ids, ct_depth, ct_pid>>
    /\ UNCHANGED <<appVars, now, returned>>

\* one test of `while let Some(pid) = current_parent_id` and, if it passes,
\* one run of its body: the parent is pushed and the walk goes on or breaks,
\* or no task has the id and the walk breaks
ct_walk_step ==
    /\ pc = "walk"
    /\ IF ~IsSome(ct_current_parent_id)
       THEN pc' = "add" /\ UNCHANGED <<ct_ancestors, ct_current_parent_id, ct_steps>>
       ELSE /\ ct_steps' = one_more_step(ct_steps)
            /\ IF Unwrap(ct_current_parent_id) \in DOMAIN all_tasks
               THEN LET parent == all_tasks[Unwrap(ct_current_parent_id)]
                    IN  IF Len(ct_ancestors) >= MaxWalk
                        THEN pc' = "aborted" /\ UNCHANGED <<ct_ancestors, ct_current_parent_id>>
                        ELSE /\ ct_ancestors' = Append(ct_ancestors, parent)
                             /\ IF ~parent_assigned(parent, user_id)
                                THEN pc' = "add" /\ UNCHANGED ct_current_parent_id
                                ELSE /\ pc' = "walk"
                                     /\ ct_current_parent_id' = parent.task.parent_id
               ELSE pc' = "add" /\ UNCHANGED <<ct_ancestors, ct_current_parent_id>>
    /\ UNCHANGED <<ct_my_idx, ct_included, ct_added_ids, ct_inc_idx, ct_depth, ct_pid,
                   ct_depth_map>>
    /\ UNCHANGED <<appVars, now, returned>>

\* the ancestors, farthest first, and then the task itself go into included
ct_add ==
    /\ pc = "add"
    /\ LET st == push_new(push_all_new([included |-> ct_included, added_ids |-> ct_added_ids],
                                       rev(ct_ancestors)),
                          my_tasks[ct_my_idx])
       IN  ct_included' = st.included /\ ct_added_ids' = st.added_ids
    /\ ct_my_idx' = ct_my_idx + 1
    /\ pc' = "for_my"
    /\ UNCHANGED <<ct_ancestors, ct_current_parent_id, ct_inc_idx, ct_depth, ct_pid,
                   ct_depth_map, ct_steps>>
    /\ UNCHANGED <<appVars, now, returned>>

\* `for dt in &included`: the next task of included, or on to the sort
ct_for_included ==
    /\ pc = "for_included"
    /\ IF ct_inc_idx <= Len(ct_included)
       THEN /\ ct_depth' = 0
            /\ ct_pid' = ct_included[ct_inc_idx].task.parent_id
            /\ ct_steps' = 0
            /\ pc' = "depth"
       ELSE /\ pc' = "sort"
            /\ UNCHANGED <<ct_depth, ct_pid, ct_steps>>
    /\ UNCHANGED <<ct_my_idx, ct_ancestors, ct_current_parent_id, ct_included, ct_added_ids,
                   ct_inc_idx, ct_depth_map>>
    /\ UNCHANGED <<appVars, now, returned>>

\* one test of `while let Some(p) = pid` and, if it passes, one run of its
\* body: the depth grows and the loop goes on, or p is not in added_ids and
\* the loop breaks; after the loop the depth goes into depth_map
ct_depth_step ==
    /\ pc = "depth"
    /\ IF IsSome(ct_pid) /\ Unwrap(ct_pid) \in ct_added_ids
       THEN /\ ct_depth' = IF ct_depth < MaxWalk THEN ct_depth + 1 ELSE ct_depth
            /\ ct_pid' = parent_of(all_tasks, Unwrap(ct_pid))
            /\ ct_steps' = one_more_step(ct_steps)
            /\ pc' = "depth"
            /\ UNCHANGED <<ct_inc_idx, ct_depth_map>>
       ELSE /\ ct_depth_map' = (ct_included[ct_inc_idx].task.id :> ct_depth) @@ ct_depth_map
            /\ ct_inc_idx' = ct_inc_idx + 1
            /\ pc' = "for_included"
            /\ ct_steps' = IF IsSome(ct_pid) THEN one_more_step(ct_steps) ELSE ct_steps
            /\ UNCHANGED <<ct_depth, ct_pid>>
    /\ UNCHANGED <<ct_my_idx, ct_ancestors, ct_current_parent_id, ct_included, ct_added_ids>>
    /\ UNCHANGED <<appVars, now, returned>>

\* included.sort_by(..), and the call returns included
ct_sort ==
    /\ pc = "sort"
    /\ ct_included' = sort_by(all_tasks, [included |-> ct_included, added_ids |-> ct_added_ids],
                              ct_depth_map, <<>>, ct_included)
    /\ returned' = ct_included'
    /\ pc' = "done"
    /\ UNCHANGED <<ct_my_idx, ct_ancestors, ct_current_parent_id, ct_added_ids, ct_inc_idx,
                   ct_depth, ct_pid, ct_depth_map, ct_steps>>
    /\ UNCHANGED <<appVars, now>>

WalkNext ==
    \/ ct_begin
    \/ ct_for_my
    \/ ct_walk_step
    \/ ct_add
    \/ ct_for_included
    \/ ct_depth_step
    \/ ct_sort

WalkSpec == WalkInit /\ [][WalkNext]_vars

\* a call, once started, keeps running: nothing preempts it for ever
FairWalkSpec == WalkSpec /\ WF_vars(WalkNext)

\* on acyclic parent references the call returns what current_tasks_of computes
StepwiseAgrees == (pc = "done" /\ Acyclic(tasks)) => ct_included = current_tasks

(***************************************************************************)
(* QuerySpec: the three queries between the commands of run_app.  A call   *)
(* of current_tasks runs step by step as in WalkSpec; group_counts and     *)
(* search_all_tasks are one step each.  A command runs when no call is in  *)
(* progress.                                                               *)
(***************************************************************************)
QueryTaskLists ==
    CommandTaskLists \cup
    {<<[BaseTask EXCEPT !.id = "a", !.name = "x", !.status = "to do", !.parent_id = Some("b")],
       [BaseTask EXCEPT !.id = "b", !.name = "xy", !.status = "done"]>>}

QueryInit ==
    /\ tasks \in QueryTaskLists
    /\ overlays \in {EmptyOverlays, snooze(EmptyOverlays, "a", ViewNow + 1)}
    /\ user_id = None
    /\ search_query \in {"", "x"}
    /\ now = <<ViewNow>>
    /\ FreshApp
    /\ NoCall

\* the call of current_tasks has returned to its caller
ct_return ==
    /\ pc = "done"
    /\ pc' = "idle"
    /\ UNCHANGED <<ct_my_idx, ct_ancestors, ct_current_parent_id, ct_included, ct_added_ids,
                   ct_inc_idx, ct_depth, ct_pid, ct_depth_map, ct_steps, returned>>
    /\ UNCHANGED <<appVars, now>>

\* a call of App::group_counts(&self)
call_group_counts ==
    /\ pc = "idle"
    /\ returned' = group_counts
    /\ UNCHANGED <<pc, ct_my_idx, ct_ancestors, ct_current_parent_id, ct_included,
                   ct_added_ids, ct_inc_idx, ct_depth, ct_pid, ct_depth_map, ct_steps>>
    /\ UNCHANGED <<appVars, now>>

\* variant: the search puts the selected result index back into the range
call_search_all_tasks_clamping ==
    /\ pc = "idle"
    /\ returned' = search_all_tasks
    /\ search_selected_index' = 0
    /\ selected_index' = 0
    /\ UNCHANGED <<pc, ct_my_idx, ct_ancestors, ct_current_parent_id, ct_included,
                   ct_added_ids, ct_inc_idx, ct_depth, ct_pid, ct_depth_map, ct_steps>>
    /\ UNCHANGED <<tasks, overlays, current_group, search_query, input_mode, status_message,
                   snooze_input, user_id, now>>

\* a call of App::search_all_tasks(&self)
call_search_all_tasks ==
    /\ pc = "idle"
    /\ returned' = search_all_tasks
    /\ UNCHANGED <<pc, ct_my_idx, ct_ancestors, ct_current_parent_id, ct_included,
                   ct_added_ids, ct_inc_idx, ct_depth, ct_pid, ct_depth_map, ct_steps>>
    /\ UNCHANGED <<appVars, now>>

QueryNext ==
    \/ WalkNext
    \/ ct_return
    \/ call_group_counts
    \/ call_search_all_tasks
    \/ pc = "idle" /\ select_next
    \/ pc = "idle" /\ select_prev
    \/ pc = "idle" /\ next_tab
    \/ pc = "idle" /\ clock_moves(ViewClocks(most_reads))

QuerySpec == QueryInit /\ [][QueryNext]_vars

(***************************************************************************)
(* Claims on the classifier and the group counter                          *)
(***************************************************************************)
IsPerson(t) == t.custom_item_id = Some(PERSON_ITEM_ID)

\* the categories the group counter counts a task under
CountedUnder(t, ov, clock) == {g \in Range(all) : counts_filter(g, display(ov, t), clock)}

\* the categories whose view takes a task as a member
MemberOf(t, ov, clock) == {g \in Range(all) : in_group(g, display(ov, t), clock)}

\* the task is classified g by the counter and by the views
ClassifiedAs(t, ov, clock, g) ==
    CountedUnder(t, ov, clock) = {g} /\ MemberOf(t, ov, clock) = {g}

SnoozedUntil(t) == get_overlay(overlays, t.id).snoozed_until

SixCategories == {MyAction, Waiting, Backlog, Done, Snoozed, Person}

\* C2: at every instant the clock is read, every task is classified, by the
\* counter and by the views, in exactly one of the six categories, and a task
\* with custom_item_id = 1020 is classified Person whatever its status and
\* whether or not it is snoozed.
C2_ClassificationTotal ==
    \A i \in DOMAIN tasks, k \in DOMAIN now :
        /\ \E g \in SixCategories : ClassifiedAs(tasks[i], overlays, now[k], g)
        /\ IsPerson(tasks[i]) => ClassifiedAs(tasks[i], overlays, now[k], Person)

C2_Witness ==
    \E i \in DOMAIN tasks :
        /\ IsPerson(tasks[i])
        /\ status_to_group(tasks[i].status) = Done
        /\ IsSome(SnoozedUntil(tasks[i])) /\ Unwrap(SnoozedUntil(tasks[i])) > now[Len(now)]
        /\ \A k \in DOMAIN now : ClassifiedAs(tasks[i], overlays, now[k], Person)

RECURSIVE SumCounts(_)
SumCounts(counts) == IF counts = <<>> THEN 0 ELSE Head(counts)[2] + SumCounts(Tail(counts))

\* C3: the six counts a call of group_counts returns add up to the number of
\* tasks: every task is counted in exactly one category.
C3_GroupCountSum == SumCounts(group_counts) = Len(tasks)

\* C4: a task that is not a Person task and whose snoozed_until is strictly
\* later than now is classified Snoozed whatever its status; when
\* snoozed_until equals now it is not Snoozed.
C4_SnoozeOverride ==
    \A i \in DOMAIN tasks, k \in DOMAIN now :
        (~IsPerson(tasks[i]) /\ IsSome(SnoozedUntil(tasks[i]))) =>
            /\ Unwrap(SnoozedUntil(tasks[i])) > now[k] =>
                  ClassifiedAs(tasks[i], overlays, now[k], Snoozed)
            /\ Unwrap(SnoozedUntil(tasks[i])) = now[k] =>
                  /\ Snoozed \notin CountedUnder(tasks[i], overlays, now[k])
                  /\ Snoozed \notin MemberOf(tasks[i], overlays, now[k])

\* a Done task is read as Snoozed at one reading of the clock and, at the
\* reading that equals its snoozed_until, as Done
C4_Witness ==
    \E i \in DOMAIN tasks, j, k \in DOMAIN now :
        /\ ~IsPerson(tasks[i])
        /\ status_to_group(tasks[i].status) = Done
        /\ now[j] < now[k]
        /\ SnoozedUntil(tasks[i]) = Some(now[k])
        /\ ClassifiedAs(tasks[i], overlays, now[j], Snoozed)
        /\ ClassifiedAs(tasks[i], overlays, now[k], Done)

\* the classification the snooze rule gives a task that is not a Person task
\* at time clock
SnoozeRule(t, clock) ==
    IF IsSome(SnoozedUntil(t)) /\ clock < Unwrap(SnoozedUntil(t))
    THEN Snoozed
    ELSE status_to_group(t.status)

\* C5: for a task that is not a Person task, the classification at an
\* instant the clock is read is Snoozed while that instant is before
\* snoozed_until and status_to_group(status) otherwise (no overlay,
\* snoozed_until unset, or the instant at or past snoozed_until); a step in
\* which only time advances moves a task from Snoozed to its status category
\* exactly when the new time has reached snoozed_until.
C5_SnoozeReversion ==
    /\ [](\A i \in DOMAIN tasks, k \in DOMAIN now :
            ~IsPerson(tasks[i]) =>
                ClassifiedAs(tasks[i], overlays, now[k], SnoozeRule(tasks[i], now[k])))
    /\ [][(now'[1] > now[1] /\ overlays' = overlays /\ tasks' = tasks) =>
            \A i \in DOMAIN tasks :
                (~IsPerson(tasks[i]) /\ ClassifiedAs(tasks[i], overlays, now[1], Snoozed)) =>
                    IF now'[1] >= Unwrap(SnoozedUntil(tasks[i]))
                    THEN ClassifiedAs(tasks[i], overlays, now'[1],
                                      status_to_group(tasks[i].status))
                    ELSE ClassifiedAs(tasks[i], overlays, now'[1], Snoozed)]_vars

C5_Witness ==
    \E i \in DOMAIN tasks :
        /\ ~IsPerson(tasks[i])
        /\ IsSome(SnoozedUntil(tasks[i]))
        /\ Unwrap(SnoozedUntil(tasks[i])) >= 1
        /\ now[1] >= Unwrap(SnoozedUntil(tasks[i]))
        /\ status_to_group(tasks[i].status) = MyAction
        /\ ClassifiedAs(tasks[i], overlays, now[1], MyAction)

\* two strings are equal up to the case of their letters
EqualIgnoringCase(x, y) ==
    /\ Len(x) = Len(y)
    /\ \A k \in 1..Len(x) : char_to_lowercase(CharAt(x, k)) = char_to_lowercase(CharAt(y, k))

InTable(status, table) == \E e \in table : EqualIgnoringCase(status, e)

\* C7: status_to_group gives the category of the table entry the status
\* equals up to case, Backlog for a status equal to no entry (the empty
\* string included), and never Snoozed or Person.
C7_StatusMapping ==
    \A i \in DOMAIN tasks :
        LET status == tasks[i].status
            g == status_to_group(status)
        IN  /\ g \in {MyAction, Waiting, Backlog, Done}
            /\ InTable(status, MyActionStatuses) => g = MyAction
            /\ InTable(status, WaitingStatuses) => g = Waiting
            /\ InTable(status, BacklogStatuses) => g = Backlog
            /\ InTable(status, DoneStatuses) => g = Done
            /\ ~InTable(status, TableStatuses) => g = Backlog

C7_Witness ==
    \E i \in DOMAIN tasks :
        /\ tasks[i].status = "IN PROGRESS"
        /\ status_to_group(tasks[i].status) = MyAction
        /\ status_to_group("in progress") = MyAction
        /\ status_to_group("") = Backlog

(***************************************************************************)
(* Claims on the working set                                               *)
(***************************************************************************)
IdsOf(dts) == {dts[i].task.id : i \in DOMAIN dts}

\* the ancestors the upward walk from primary task dt collects
WalkFrom(dt) == ancestor_walk(all_tasks, user_id, dt.task.parent_id, <<>>)

\* the number of tasks of ts the counter counts under g
CountOf(ts, g) == (CHOOSE c \in Range(group_counts_of(ts, overlays, now)) : c[1] = g)[2]

NonPersons(ts) == SelectSeq(ts, LAMBDA t : ~IsPerson(t))

\* C6: a Person task is counted under Person only: each of the other five
\* counts is the count of the list without its Person tasks, and the Person
\* count is the number of Person tasks; the primary tasks of the Person tab
\* are Person tasks and those of every other tab are not.
C6_PersonPartition ==
    /\ \A g \in SixCategories \ {Person} : CountOf(tasks, g) = CountOf(NonPersons(tasks), g)
    /\ CountOf(tasks, Person) = Len(tasks) - Len(NonPersons(tasks))
    /\ \A grp \in SixCategories :
          \A dt \in Range(my_tasks_of(tasks, overlays, now, grp, user_id, search_query)) :
              (grp = Person) <=> IsPerson(dt.task)

C6_Witness ==
    /\ \E i \in DOMAIN tasks :
          /\ IsPerson(tasks[i])
          /\ SnoozedUntil(tasks[i]) = Some(now[1] + 1)
          /\ is_assigned(display(overlays, tasks[i]), user_id)
    /\ current_group = Snoozed
    /\ my_tasks /= <<>>
    /\ \A dt \in Range(my_tasks) : ~IsPerson(dt.task)
    /\ CountOf(tasks, Person) = 1

\* the whole parent chain of a task through the index, nearest first
RECURSIVE FullChain(_)
FullChain(pid) ==
    IF IsSome(pid) /\ Unwrap(pid) \in DOMAIN all_tasks
    THEN <<Unwrap(pid)>> \o FullChain(all_tasks[Unwrap(pid)].task.parent_id)
    ELSE <<>>

PassesAssignment(t) == user_id = None \/ Unwrap(user_id) \in t.assignee_ids

\* the chain up to and including its first task that fails the assignment
\* filter
UpToFirstFailing(chain) ==
    LET failing == {k \in DOMAIN chain : ~PassesAssignment(all_tasks[chain[k]].task)}
    IN  IF failing = {} THEN chain
        ELSE SubSeq(chain, 1, CHOOSE k \in failing : \A m \in failing : k <= m)

\* the chain a -> b -> c in which a is the only primary task and b fails the
\* assignment filter
TruncationCase ==
    /\ Len(tasks) = 3
    /\ \E i, j, k \in DOMAIN tasks :
          /\ tasks[i].id = "a" /\ tasks[i].parent_id = Some("b")
          /\ tasks[j].id = "b" /\ tasks[j].parent_id = Some("c")
          /\ tasks[k].id = "c" /\ tasks[k].parent_id = None
          /\ ~PassesAssignment(tasks[j])
    /\ IdsOf(my_tasks) = {"a"}

\* C8: the upward walk from a primary task collects its parent chain up to
\* and including the first ancestor that fails the assignment filter and
\* nothing above it; in the chain a -> b -> c with a the only primary task
\* and b failing the filter the working set is a and b, without c.
C8_AncestorTruncation ==
    /\ \A dt \in Range(my_tasks) :
          [k \in DOMAIN WalkFrom(dt) |-> WalkFrom(dt)[k].task.id]
              = UpToFirstFailing(FullChain(dt.task.parent_id))
    /\ TruncationCase => IdsOf(current_tasks) = {"a", "b"}

C8_Witness ==
    /\ TruncationCase
    /\ IdsOf(current_tasks) = {"a", "b"}
    /\ "c" \in DOMAIN all_tasks

\* needle occurs in hay up to the case of the letters
OccursIgnoringCase(hay, needle) ==
    \E k \in 1..(Len(hay) - Len(needle) + 1) :
        EqualIgnoringCase(SubSeq(hay, k, k + Len(needle) - 1), needle)

\* the task is in the category of the active tab at the given instant
InActiveCategory(t, instant) ==
    IF current_group = Person THEN IsPerson(t)
    ELSE ~IsPerson(t) /\ SnoozeRule(t, instant) = current_group

PassesText(t) ==
    \/ search_query = ""
    \/ OccursIgnoringCase(t.name, search_query)
    \/ OccursIgnoringCase(t.list_name, search_query)
    \/ OccursIgnoringCase(t.status, search_query)
    \/ (IsSome(t.description) /\ OccursIgnoringCase(Unwrap(t.description), search_query))

\* C9: the primary tasks of a call of current_tasks are the tasks that, at
\* an instant of the call, are in the active category (Person rule applied),
\* pass the assignment filter, and have the text filter, when it is not
\* empty, up to case in their name, list_name, status or description.
C9_PrimaryMembership ==
    \E k \in DOMAIN now :
        \A i \in DOMAIN tasks :
            (display(overlays, tasks[i]) \in Range(my_tasks))
                <=> (/\ InActiveCategory(tasks[i], now[k])
                     /\ PassesAssignment(tasks[i])
                     /\ PassesText(tasks[i]))

\* C10: the result of current_tasks is the primary tasks together with the
\* ancestors their upward walks collect, whatever the category and the text
\* of an ancestor, and nothing else.
C10_AncestorsBypassFilters ==
    Range(current_tasks) = Range(my_tasks) \cup UNION {Range(WalkFrom(dt)) : dt \in Range(my_tasks)}

C10_Witness ==
    /\ search_query /= ""
    /\ current_group = Backlog
    /\ \E x \in Range(current_tasks) :
          /\ x \notin Range(my_tasks)
          /\ ~PassesText(x.task)
          /\ SnoozeRule(x.task, now[Len(now)]) = Snoozed

(***************************************************************************)
(* Claims on termination                                                   *)
(***************************************************************************)
NoIdTwice(dts) == \A i, j \in DOMAIN dts : dts[i].task.id = dts[j].task.id => i = j

\* C1: on a task list whose parent references form a cycle, a call of
\* current_tasks returns, and its result holds no task twice.
C1_CycleSafety ==
    /\ [](pc /= "aborted")
    /\ (pc = "idle" /\ ~Acyclic(tasks)) ~> (pc = "done" /\ NoIdTwice(ct_included))

(***************************************************************************)
(* Claims: the order of the working set (SortSpec)                         *)
(***************************************************************************)
\* the task of the list with this id
TaskById(id) == CHOOSE t \in Range(tasks) : t.id = id

\* the ancestors of task id along parents that are in the visible set vis,
\* nearest first
RECURSIVE VisibleAncestors(_, _)
VisibleAncestors(vis, id) ==
    LET p == TaskById(id).parent_id
    IN  IF IsSome(p) /\ Unwrap(p) \in vis
        THEN <<Unwrap(p)>> \o VisibleAncestors(vis, Unwrap(p))
        ELSE <<>>

\* the root of task id: its topmost visible ancestor, or itself
FamilyRoot(vis, id) ==
    LET anc == VisibleAncestors(vis, id) IN IF anc = <<>> THEN id ELSE anc[Len(anc)]

\* the priority of the root of task id as a number, an absent one above all
RootRank(vis, id) ==
    LET p == TaskById(FamilyRoot(vis, id)).priority IN IF IsSome(p) THEN Unwrap(p) ELSE 256

\* x is before y in lexicographic order of code points
LexLess(x, y) ==
    \E k \in 1..(Len(y)) :
        /\ k <= Len(x) + 1
        /\ \A m \in 1..(k - 1) : CharAt(x, m) = CharAt(y, m)
        /\ \/ k = Len(x) + 1
           \/ char_code(CharAt(x, k)) < char_code(CharAt(y, k))

\* the ids of a list of display tasks, in order
ResultIds(res) == [i \in DOMAIN res |-> res[i].task.id]

\* the ids of the task list, in order
InputIds == [i \in DOMAIN tasks |-> tasks[i].id]

\* C11: the list current_tasks returns holds no task id twice.
C11_Deduplication == NoIdTwice(current_tasks)

C11_Witness ==
    /\ Len(current_tasks) = 3
    /\ Len(my_tasks) = 3
    /\ \E i, j, k \in DOMAIN tasks :
          /\ i /= j
          /\ tasks[i].parent_id = Some(tasks[k].id)
          /\ tasks[j].parent_id = Some(tasks[k].id)

\* C12: if x precedes y in the result, the priority of x's root is at most
\* that of y's root, a root without priority counting above every priority.
C12_RootPriorityOrdering ==
    LET res == current_tasks
        vis == IdsOf(res)
    IN  \A i, j \in DOMAIN res :
            i < j => RootRank(vis, res[i].task.id) <= RootRank(vis, res[j].task.id)

C12_Witness ==
    LET res == current_tasks
        vis == IdsOf(res)
    IN  /\ Len(res) = 3
        /\ RootRank(vis, res[1].task.id) = 2
        /\ RootRank(vis, res[2].task.id) = 256
        /\ FamilyRoot(vis, res[3].task.id) = res[2].task.id
        /\ res[3].task.priority = Some(1)

\* C13: the tasks of one root stand at consecutive positions of the result,
\* and of two families whose roots have the same priority the one with the
\* lexicographically smaller root id comes first.
C13_FamilyContiguity ==
    LET res == current_tasks
        vis == IdsOf(res)
    IN  /\ \A i, j, k \in DOMAIN res :
              (i < k /\ k < j /\ FamilyRoot(vis, res[i].task.id) = FamilyRoot(vis, res[j].task.id))
                  => FamilyRoot(vis, res[k].task.id) = FamilyRoot(vis, res[i].task.id)
        /\ \A i, j \in DOMAIN res :
              (/\ i < j
               /\ FamilyRoot(vis, res[i].task.id) /= FamilyRoot(vis, res[j].task.id)
               /\ RootRank(vis, res[i].task.id) = RootRank(vis, res[j].task.id))
                  => LexLess(FamilyRoot(vis, res[i].task.id), FamilyRoot(vis, res[j].task.id))

C13_Witness ==
    LET res == current_tasks
        vis == IdsOf(res)
    IN  /\ Len(res) = 3
        /\ ResultIds(res) = <<"10", "a", "9">>
        /\ FamilyRoot(vis, "a") = "10"
        /\ FamilyRoot(vis, "9") = "9"
        /\ RootRank(vis, "a") = RootRank(vis, "9")

\* C14: within one family the result is in ascending depth, so the root is
\* first and every task comes after its visible parent, whatever the
\* priorities of the children; tasks of one family and depth are in
\* ascending id order.
C14_WithinFamilyOrdering ==
    LET res == current_tasks
        vis == IdsOf(res)
        dep(i) == Len(VisibleAncestors(vis, res[i].task.id))
        fam(i) == FamilyRoot(vis, res[i].task.id)
    IN  /\ \A i, j \in DOMAIN res :
              (i < j /\ fam(i) = fam(j)) =>
                  /\ dep(i) <= dep(j)
                  /\ res[j].task.id /= fam(j)
                  /\ res[i].task.parent_id /= Some(res[j].task.id)
                  /\ dep(i) = dep(j) => LexLess(res[i].task.id, res[j].task.id)

C14_Witness ==
    LET res == current_tasks
        vis == IdsOf(res)
    IN  /\ ResultIds(res) = <<"a", "10", "9">>
        /\ VisibleAncestors(vis, "10") = <<"a">>
        /\ VisibleAncestors(vis, "9") = <<"a">>
        /\ TaskById("a").priority = Some(2)
        /\ TaskById("9").priority = Some(1)
        /\ InputIds = <<"a", "9", "10">>

\* the depth_map the sorter builds for the result of the current state
SorterDepth(id) ==
    LET at == all_tasks
        st == build_included(at, user_id, my_tasks, [included |-> <<>>, added_ids |-> {}])
    IN  depth_map_of(at, st)[id]

\* C15 as stated: the depth of a task is the number of visible ancestors
\* strictly between the task and its root (a root and its direct child 0).
C15_DepthStrictlyBetween ==
    LET vis == IdsOf(current_tasks)
    IN  \A id \in vis :
            SorterDepth(id) = saturating_sub(Len(VisibleAncestors(vis, id)), 1)

\* C15 amended: the depth of a task is the number of its visible ancestors,
\* its root included (a root 0, its direct child 1, a grandchild 2).
C15_DepthCountsAncestors ==
    LET vis == IdsOf(current_tasks)
    IN  \A id \in vis : SorterDepth(id) = Len(VisibleAncestors(vis, id))

C15_Witness ==
    LET vis == IdsOf(current_tasks)
    IN  /\ VisibleAncestors(vis, "a") = <<"9", "10">>
        /\ SorterDepth("10") = 0
        /\ SorterDepth("9") = 1
        /\ SorterDepth("a") = 2

\* the task list in every order
Reorderings(ts) == {[i \in DOMAIN ts |-> ts[p[i]]] : p \in Permutations(DOMAIN ts)}

\* C16: on distinct ids and acyclic parents, current_tasks returns the same
\* sequence of ids for every order of the task list, and tasks of equal
\* root and depth are in id order.
C16_SortDeterminism ==
    LET res == current_tasks
        vis == IdsOf(res)
    IN  /\ \A ts \in Reorderings(tasks) :
              ResultIds(current_tasks_of(ts, overlays, now, current_group, user_id,
                                         search_query)) = ResultIds(res)
        /\ \A i, j \in DOMAIN res :
              (/\ i < j
               /\ FamilyRoot(vis, res[i].task.id) = FamilyRoot(vis, res[j].task.id)
               /\ Len(VisibleAncestors(vis, res[i].task.id))
                     = Len(VisibleAncestors(vis, res[j].task.id)))
                  => LexLess(res[i].task.id, res[j].task.id)

C16_Witness ==
    LET res == current_tasks
        vis == IdsOf(res)
    IN  /\ InputIds = <<"a", "9", "10">>
        /\ ResultIds(res) = <<"10", "9", "a">>
        /\ VisibleAncestors(vis, "9") = <<"10">>
        /\ VisibleAncestors(vis, "a") = <<"10">>

(***************************************************************************)
(* Claims: the global search (SearchSpec)                                  *)
(***************************************************************************)
\* the searched fields of a task, in the order the claim names them
Fields(t) ==
    <<t.name, t.list_name, t.status>>
    \o (IF IsSome(t.description) THEN <<Unwrap(t.description)>> ELSE <<>>)
    \o t.tags

\* the characters of q occur in text in order, not necessarily adjacent
RECURSIVE IsSubsequence(_, _)
IsSubsequence(q, text) ==
    IF Len(q) = 0 THEN TRUE
    ELSE IF Len(text) < Len(q) THEN FALSE
    ELSE IF CharAt(q, Len(q)) = CharAt(text, Len(text))
         THEN IsSubsequence(SubSeq(q, 1, Len(q) - 1), SubSeq(text, 1, Len(text) - 1))
         ELSE IsSubsequence(q, SubSeq(text, 1, Len(text) - 1))

\* field matches the query, both lower-cased
FieldMatches(field) == IsSubsequence(to_lowercase(search_query), to_lowercase(field))

\* the positions (from 1) at which a left-to-right scan from position from
\* matches the characters of q, each at the earliest possible position
RECURSIVE EarliestMatch(_, _, _)
EarliestMatch(q, text, from) ==
    IF Len(q) = 0 THEN <<>>
    ELSE LET cand == {i \in from..Len(text) : CharAt(text, i) = CharAt(q, 1)}
         IN  IF cand = {} THEN <<>>
             ELSE LET first == CHOOSE i \in cand : \A j \in cand : i <= j
                  IN  <<first>> \o EarliestMatch(SubSeq(q, 2, Len(q)), text, first + 1)

\* matched characters + 10 per match at a word start + 5 per match directly
\* after the previous match
ScoreOf(field) ==
    LET text == to_lowercase(field)
        pos == EarliestMatch(to_lowercase(search_query), text, 1)
        at_word_start == {k \in DOMAIN pos :
                            pos[k] = 1 \/ ~is_alphanumeric(CharAt(text, pos[k] - 1))}
        adjacent == {k \in DOMAIN pos : k > 1 /\ pos[k] = pos[k - 1] + 1}
    IN  Len(pos) + 10 * Cardinality(at_word_start) + 5 * Cardinality(adjacent)

\* C17: with an empty query search_all_tasks returns the empty list.
C17_EmptyQuery == search_query = "" => search_all_tasks = <<>>

C17_Witness ==
    /\ input_mode = "Search"
    /\ search_query = ""
    /\ Len(tasks) = 3

\* C18: with a non-empty query a task is in the result of search_all_tasks
\* iff the lower-cased query is a subsequence of the lower-cased text of one
\* of its fields name, list_name, status, description or a tag; no task is
\* in the result twice.
C18_FuzzySubsequenceMatch ==
    search_query /= "" =>
        LET res == search_all_tasks
        IN  /\ \A i \in DOMAIN tasks :
                  (tasks[i].id \in IdsOf(res))
                      <=> \E k \in DOMAIN Fields(tasks[i]) : FieldMatches(Fields(tasks[i])[k])
            /\ NoIdTwice(res)
            /\ \A r \in Range(res) : r.task \in Range(tasks)

C18_Witness ==
    /\ search_query = "Tc"
    /\ InputIds = <<"a", "b", "c">>
    /\ tasks[2].name = "Card"
    /\ tasks[3].name = "Task Create"
    /\ ResultIds(search_all_tasks) = <<"c", "a">>

\* C19: the score of a matching field is the number of matched characters,
\* plus 10 for every match at index 0 or directly after a non-alphanumeric
\* character, plus 5 for every match directly after the previous match,
\* the matches being the earliest possible ones of a left-to-right scan.
C19_FuzzyScore ==
    search_query /= "" =>
        \A i \in DOMAIN tasks : \A k \in DOMAIN Fields(tasks[i]) :
            LET field == Fields(tasks[i])[k]
            IN  FieldMatches(field) =>
                    fuzzy_score(field, to_lowercase(search_query)) = Some(ScoreOf(field))

C19_Witness ==
    /\ search_query = "tc"
    /\ \E i, j \in DOMAIN tasks :
          /\ tasks[i].name = "Task Create"
          /\ tasks[j].name = "xtycx"
          /\ fuzzy_score(tasks[i].name, "tc") = Some(22)
          /\ fuzzy_score(tasks[j].name, "tc") = Some(2)
    /\ ResultIds(search_all_tasks) = <<"c", "a">>

\* the score of the first field of t, in the order of Fields, that matches
FirstFieldScore(t) ==
    LET fs == Fields(t)
        first == CHOOSE k \in DOMAIN fs :
                    FieldMatches(fs[k]) /\ \A m \in 1..(k - 1) : ~FieldMatches(fs[m])
    IN  ScoreOf(fs[first])

\* C20: the score of a task in search_all_tasks is the score of its first
\* matching field in the order name, list_name, status, description, tags;
\* the results are ranked by that score, also where a later field would
\* score higher.
C20_FirstMatchingFieldWins ==
    search_query /= "" =>
        LET res == search_all_tasks
        IN  /\ \A r \in Range(res) :
                  task_score(r, to_lowercase(search_query)) = Some(FirstFieldScore(r.task))
            /\ \A i, j \in DOMAIN res :
                  i < j => FirstFieldScore(res[i].task) >= FirstFieldScore(res[j].task)

C20_Witness ==
    /\ to_lowercase(search_query) = "tc"
    /\ InputIds = <<"a", "b">>
    /\ ResultIds(search_all_tasks) = <<"b", "a">>
    /\ FirstFieldScore(tasks[1]) = 2
    /\ FirstFieldScore(tasks[2]) = 7
    /\ fuzzy_score(tasks[1].list_name, "tc") = Some(22)

\* the position of a result in the input task list
InputPos(dt) == CHOOSE i \in DOMAIN tasks : tasks[i].id = dt.task.id

\* C21: the list search_all_tasks returns is in non-increasing score order,
\* and tasks of equal score are in the order of the input task list.
C21_SearchRankingStable ==
    search_query /= "" =>
        LET res == search_all_tasks
        IN  \A i, j \in DOMAIN res :
                i < j =>
                    /\ FirstFieldScore(res[i].task) >= FirstFieldScore(res[j].task)
                    /\ FirstFieldScore(res[i].task) = FirstFieldScore(res[j].task)
                          => InputPos(res[i]) < InputPos(res[j])

C21_Witness ==
    /\ search_query = "c"
    /\ InputIds = <<"c", "b", "a">>
    /\ ResultIds(search_all_tasks) = <<"b", "a", "c">>
    /\ FirstFieldScore(tasks[2]) = 11
    /\ FirstFieldScore(tasks[3]) = 11
    /\ FirstFieldScore(tasks[1]) = 1

(***************************************************************************)
(* Claims on the counter, the queries and the commands                     *)
(***************************************************************************)
\* the positions of the tasks that are of category g when the counter comes
\* to them, whatever the filters
TallyOf(g) ==
    {k \in DOMAIN tasks :
        IF g = Person THEN IsPerson(tasks[k])
        ELSE /\ ~IsPerson(tasks[k])
             /\ effective_group(display(overlays, tasks[k]),
                                read_at(now, count_read(tasks, overlays, index(g) + 1, k))) = g}

\* C22: group_counts has exactly one entry for each of the six categories, and
\* the entry of a category is the number of all its tasks, whatever the user
\* filter, the search text and the active category.
C22_CountsIgnoreFilters ==
    LET counts == group_counts
    IN  /\ Len(counts) = Cardinality(SixCategories)
        /\ \A g \in SixCategories : Cardinality({i \in DOMAIN counts : counts[i][1] = g}) = 1
        /\ \A i \in DOMAIN counts : counts[i][2] = Cardinality(TallyOf(counts[i][1]))

C22_Witness ==
    /\ user_id = Some(1)
    /\ search_query = "FIX"
    /\ current_group = Done
    /\ current_tasks = <<>>
    /\ \E k \in TallyOf(Backlog) :
          /\ ~is_assigned_to(tasks[k], 1)
          /\ ~text_filter(display(overlays, tasks[k]), search_query)
    /\ \E i \in DOMAIN group_counts : group_counts[i] = <<Backlog, 2>>

\* C26: in every state in Search mode the selected result index is 0 when
\* search_all_tasks is empty and below its length otherwise; every edit of
\* the query (a character typed, a backspace, also on the empty query,
\* start_search) puts the index back to 0.
C26_SearchSelectionInRange ==
    /\ [](input_mode = "Search" =>
            IF search_all_tasks = <<>>
            THEN search_selected_index = 0
            ELSE search_selected_index < Len(search_all_tasks))
    /\ [][(start_search \/ handle_backspace \/ \E c \in SearchKeys : handle_char(c))
            => search_selected_index' = 0]_vars
    /\ [][(input_mode' = "Search" /\ (search_query' /= search_query \/ input_mode = "Normal"))
            => search_selected_index' = 0]_vars

C26_Witness ==
    /\ input_mode = "Search"
    /\ search_selected_index >= 1
    /\ Len(search_all_tasks) = search_selected_index + 1
    /\ Len(search_query) = MaxQuery

\* C27: when the parent references have no cycle, a call of current_tasks
\* returns, and each upward walk (the ancestor walk, the depth loop, the
\* root lookup) runs its body at most as many times as there are tasks.
C27_AcyclicTermination ==
    /\ (pc = "idle" /\ Acyclic(tasks)) ~> (pc = "done")
    /\ [](Acyclic(tasks) =>
            /\ ct_steps <= Len(tasks)
            /\ pc \in {"sort", "done"} =>
                  \A i \in DOMAIN ct_included :
                      root_walk_steps(all_tasks, ct_added_ids,
                                      ct_included[i].task.parent_id, 0) <= Len(tasks))

C27_Witness ==
    /\ Acyclic(tasks)
    /\ pc = "done"
    /\ Len(tasks) = 3
    /\ ct_steps = 3
    /\ \E i \in DOMAIN ct_included :
          root_walk_steps(all_tasks, ct_added_ids, ct_included[i].task.parent_id, 0) = 3

\* the text is an optional plus sign and then digits, at least one
IsNumberText(c) ==
    \E k \in 0..1 :
        /\ Len(c) > k
        /\ k = 1 => CharAt(c, 1) = "+"
        /\ \A j \in (k + 1)..Len(c) : CharAt(c, j) \in {CharAt(Digits, d) : d \in 1..Len(Digits)}

\* C28: with a user filter, a task of the result of current_tasks that is
\* not assigned to the user is the direct parent of a task of the result
\* that is assigned to the user.  Without a user filter (no user_id, or a
\* user_id text that is not a number) every task passes the assignment
\* filter and an upward walk collects the whole parent chain, up to a
\* missing parent.
C28_UnassignedOnlyAsContext ==
    /\ IsSome(user_id) =>
          \A x \in Range(current_tasks) :
              ~is_assigned_to(x.task, Unwrap(user_id)) =>
                  \E y \in Range(current_tasks) :
                      /\ y.task.parent_id = Some(x.task.id)
                      /\ is_assigned_to(y.task, Unwrap(user_id))
    /\ user_id = None =>
          /\ \A i \in DOMAIN tasks : is_assigned(display(overlays, tasks[i]), user_id)
          /\ \A dt \in Range(my_tasks) :
                [k \in DOMAIN WalkFrom(dt) |-> WalkFrom(dt)[k].task.id]
                    = FullChain(dt.task.parent_id)
    /\ \A c \in UserIdConfigs : ~IsNumberText(c) => set_user_id(c) = None

\* an unassigned parent b of the assigned task a is shown, the parent c of b
\* is not
C28_Witness ==
    /\ user_id = Some(1)
    /\ TruncationCase
    /\ \E x \in Range(current_tasks) : x.task.id = "b" /\ ~is_assigned_to(x.task, 1)
    /\ \A x \in Range(current_tasks) : x.task.id /= "c"
    /\ set_user_id("me") = None

\* the task the selection is on, in the state a command starts from
SelectedTask == Unwrap(selected_task).task

\* the number of days in the snooze prompt
PromptDays == Unwrap(parse_i64(snooze_input))

\* C23: when confirm_snooze snoozes the selected task T, not a Person task,
\* for N >= 1 days, the counter next counts T under Snoozed and not under
\* the category of its status; when unsnooze acts on T, the counter next
\* counts T under the category of its status.
C23_OverlayUpdatesObserved ==
    /\ [][(/\ confirm_snooze
            /\ IsSome(parse_i64(snooze_input)) /\ IsSome(selected_task)
            /\ PromptDays >= 1 /\ ~IsPerson(SelectedTask)
            /\ pc' = "idle")
            => \A k \in DOMAIN now' :
                   CountedUnder(SelectedTask, overlays', now'[k]) = {Snoozed}]_vars
    /\ [][(/\ status_message' = Some("Task unsnoozed")
            /\ App_unsnooze /\ IsSome(selected_task) /\ ~IsPerson(SelectedTask))
            => \A k \in DOMAIN now' :
                   CountedUnder(SelectedTask, overlays', now'[k]) = {group(SelectedTask)}]_vars

\* a task has just been snoozed for two days, after the clock has moved and
\* next to a task that has been unsnoozed
C23_Witness ==
    /\ status_message = Some("Task snoozed for 2 days")
    /\ current_group = MyAction
    /\ now[1] > ViewNow
    /\ \E i \in DOMAIN tasks :
          /\ ~IsPerson(tasks[i])
          /\ group(tasks[i]) = MyAction
          /\ SnoozedUntil(tasks[i]) = Some(now[1] + 2)
          /\ CountedUnder(tasks[i], overlays, now[1]) = {Snoozed}
    /\ \E i \in DOMAIN tasks :
          /\ tasks[i].id \in DOMAIN overlays
          /\ get_overlay(overlays, tasks[i].id) = DefaultOverlay
          /\ CountedUnder(tasks[i], overlays, now[1]) = {MyAction}

\* C25: after any sequence of key commands the selected index is below the
\* length of current_tasks whenever that list is not empty, so that
\* selected_task is Some.
C25_SelectionInRange ==
    current_tasks /= <<>> => (selected_index < Len(current_tasks) /\ IsSome(selected_task))

\* C29: toggle_pin on the selected task flips the pinned flag of its overlay
\* (a default overlay is created where there was none) and nothing else of
\* the overlay map: no snoozed_until changes; the ids current_tasks returns
\* and the result of group_counts are the same before and after; a second
\* toggle brings the first pinned value back.
C29_PinDisplayOnly ==
    [][(/\ status_message' \in {Some("Task pinned"), Some("Task unpinned")}
        /\ App_toggle_pin /\ IsSome(selected_task)) =>
        LET id == SelectedTask.id
        IN  /\ DOMAIN overlays' = DOMAIN overlays \cup {id}
            /\ overlays'[id] = [get_overlay(overlays, id) EXCEPT
                                   !.pinned = ~get_overlay(overlays, id).pinned]
            /\ \A k \in DOMAIN overlays \ {id} : overlays'[k] = overlays[k]
            /\ \A i \in DOMAIN tasks :
                  get_overlay(overlays', tasks[i].id).snoozed_until = SnoozedUntil(tasks[i])
            /\ ResultIds(current_tasks_of(tasks', overlays', now', current_group', user_id',
                                           search_query'))
                  = ResultIds(current_tasks)
            /\ group_counts_of(tasks', overlays', now') = group_counts
            /\ is_pinned(toggle_pin(overlays', id), id) = is_pinned(overlays, id)]_vars

C29_Witness ==
    /\ current_group = Snoozed
    /\ status_message = Some("Task unpinned")
    /\ IsSome(selected_task)
    /\ SelectedTask.id \in DOMAIN overlays
    /\ ~is_pinned(overlays, SelectedTask.id)
    /\ SnoozedUntil(SelectedTask) = Some(now[1] + 1)
    /\ \E i \in DOMAIN tasks : is_pinned(overlays, tasks[i].id) /\ tasks[i].id /= SelectedTask.id

\* C30: Snooze mode is entered only with a task selected; in Snooze mode the
\* prompt grows by ASCII digits only; confirm_snooze always puts input_mode
\* back to Normal and empties the prompt, and for a prompt that is not a
\* number it leaves the overlay map as it is and sets the status message
\* "Invalid number"; cancel_input leaves the overlay map as it is.
C30_SnoozeInputHandling ==
    /\ [][(input_mode /= "Snooze" /\ input_mode' = "Snooze") => IsSome(selected_task)]_vars
    /\ [][(input_mode = "Snooze" /\ Len(snooze_input') > Len(snooze_input))
            => \E d \in 1..Len(Digits) : snooze_input' = snooze_input \o CharAt(Digits, d)]_vars
    /\ [][confirm_snooze =>
            /\ input_mode' = "Normal"
            /\ snooze_input' = ""
            /\ ~IsSome(parse_i64(snooze_input))
                  => (overlays' = overlays /\ status_message' = Some("Invalid number"))]_vars
    /\ [][cancel_input => overlays' = overlays]_vars

\* a step of one of the three queries
QueryStep ==
    \/ ct_begin \/ ct_for_my \/ ct_walk_step \/ ct_add \/ ct_for_included \/ ct_depth_step
    \/ ct_sort
    \/ call_group_counts
    \/ call_search_all_tasks

\* C24: no step of current_tasks, group_counts or search_all_tasks changes
\* the application state: the task list, the overlay map, the active
\* category, the search query, the two selection indices and the input mode.
C24_QueriesDoNotMutate ==
    [][QueryStep => UNCHANGED <<tasks, overlays, current_group, search_query, selected_index,
                                search_selected_index, input_mode>>]_vars

C24_Witness ==
    /\ pc = "done"
    /\ returned = current_tasks
    /\ Len(returned) = 2
    /\ selected_index = 1
    /\ search_query = "x"
    /\ search_all_tasks /= <<>>
    /\ current_group = MyAction
    /\ \E i \in DOMAIN tasks : tasks[i].parent_id /= None

====
